---- MODULE Spec2Model ----
(***************************************************************************)
(* Multi-tenant project tracker (Django + GraphQL): the tenant resolver    *)
(* (OrganizationMiddleware), the request gate                              *)
(* (RequireOrganizationMiddleware), the scope utilities                    *)
(* (apps/organizations/utils.py) and the GraphQL resolvers and mutations   *)
(* over the Organization / Project / Task / TaskComment tables.            *)
(***************************************************************************)
EXTENDS Integers, Sequences, FiniteSets, TLC

VARIABLES orgs, projects, tasks, comments, requests, util

vars == <<orgs, projects, tasks, comments, requests, util>>
store == <<orgs, projects, tasks, comments>>

(***************************************************************************)
(* Bounds of the model.                                                    *)
(***************************************************************************)
MaxOrgs == 2
MaxProjects == 2
MaxTasks == 2
MaxComments == 1
NumRequests == 2

Requests == 1..NumRequests
\* The worker used by the specifications that run one request at a time.
Sequential == {1}

(***************************************************************************)
(* Python values: None, optional values, truthiness of str / None.         *)
(***************************************************************************)
None == <<>>
Some(v) == <<v>>
\* `if x:` / `not x` for a value that is None or a str.
Truthy(v) == v # None /\ v[1] # ""

(***************************************************************************)
(* str.startswith                                                          *)
(***************************************************************************)
startswith(s, prefix) ==
    /\ Len(s) >= Len(prefix)
    /\ SubSeq(s, 1, Len(prefix)) = prefix

(***************************************************************************)
(* Conversion of a primary-key argument given as text (a header, a query   *)
(* parameter) to the integer the AutoField compares with; text that is not *)
(* a decimal number makes the field's get_prep_value raise ValueError.     *)
(***************************************************************************)
IsDigit(c) == c \in {"0", "1", "2", "3", "4", "5", "6", "7", "8", "9"}

DigitValue(c) ==
    CASE c = "0" -> 0 [] c = "1" -> 1 [] c = "2" -> 2 [] c = "3" -> 3
      [] c = "4" -> 4 [] c = "5" -> 5 [] c = "6" -> 6 [] c = "7" -> 7
      [] c = "8" -> 8 [] c = "9" -> 9

WellFormedPk(s) ==
    /\ Len(s) > 0
    /\ \A i \in 1..Len(s) : IsDigit(SubSeq(s, i, i))

RECURSIVE IntOfPrefix(_, _)
IntOfPrefix(s, n) ==
    IF n = 0 THEN 0
    ELSE 10 * IntOfPrefix(s, n - 1) + DigitValue(SubSeq(s, n, n))

IntOf(s) == IntOfPrefix(s, Len(s))

\* str(n) for a primary key n >= 0.
RECURSIVE StrOf(_)
StrOf(n) ==
    IF n < 10 THEN SubSeq("0123456789", n + 1, n + 1)
    ELSE StrOf(n \div 10) \o SubSeq("0123456789", (n % 10) + 1, (n % 10) + 1)

(***************************************************************************)
(* django.utils.text.slugify on the names the model uses: lower-case,      *)
(* drop what is neither alphanumeric, '_', '-' nor white space, turn runs  *)
(* of white space and '-' into one '-', strip leading and trailing '-' and *)
(* '_'.                                                                    *)
(***************************************************************************)
LowerOf(c) ==
    CASE c = "A" -> "a" [] c = "B" -> "b" [] c = "C" -> "c" [] c = "M" -> "m"
      [] c = "O" -> "o" [] c = "T" -> "t"
      [] OTHER -> c

IsSlugChar(c) ==
    \/ IsDigit(c)
    \/ c \in {"a", "b", "c", "d", "e", "g", "i", "m", "n", "o", "r", "s",
              "t", "y", "z", "_"}

IsSeparator(c) == c \in {" ", "-"}

\* The text after lower-casing, dropping and collapsing, before the strip.
RECURSIVE SlugBody(_, _)
SlugBody(s, n) ==
    IF n = 0 THEN ""
    ELSE LET c == LowerOf(SubSeq(s, n, n))
             before == SlugBody(s, n - 1)
             endsInDash == Len(before) > 0
                           /\ SubSeq(before, Len(before), Len(before)) = "-"
         IN  IF IsSlugChar(c) THEN before \o c
             ELSE IF IsSeparator(c)
                  THEN (IF endsInDash THEN before ELSE before \o "-")
                  ELSE before

RECURSIVE StripLeft(_)
StripLeft(s) ==
    IF Len(s) > 0 /\ SubSeq(s, 1, 1) \in {"-", "_"}
    THEN StripLeft(SubSeq(s, 2, Len(s)))
    ELSE s

RECURSIVE StripRight(_)
StripRight(s) ==
    IF Len(s) > 0 /\ SubSeq(s, Len(s), Len(s)) \in {"-", "_"}
    THEN StripRight(SubSeq(s, 1, Len(s) - 1))
    ELSE s

slugify(name) == StripRight(StripLeft(SlugBody(name, Len(name))))

(***************************************************************************)
(* The tables.  A table is the sequence of its rows and a row's primary    *)
(* key is its position (AutoField); orgs, projects, tasks and comments are *)
(* the Organization, Project, Task and TaskComment tables.                 *)
(***************************************************************************)
\* What is left at the position of a row that was deleted: primary keys are
\* never given again.
Deleted == [deleted |-> TRUE]

\* The primary keys of the rows of a table.
Live(table) == {i \in DOMAIN table : table[i] # Deleted}

OrgIds == Live(orgs)
ProjectIds == Live(projects)
TaskIds == Live(tasks)
CommentIds == Live(comments)

\* A model instance loaded from a row: the row's values at load time and pk.
OrganizationInstance(id) ==
    [id |-> id, name |-> orgs[id].name, slug |-> orgs[id].slug,
     is_active |-> orgs[id].is_active]

\* Model.__eq__: same model class and same primary key.
SameInstance(a, b) == a.id = b.id

\* Project.organization, Task.project.organization and
\* TaskComment.task.project.organization, as primary keys.
ProjectOrganization(p) == projects[p].organization
TaskOrganization(t) == ProjectOrganization(tasks[t].project)
CommentOrganization(c) == TaskOrganization(comments[c].task)

\* The lookup by slug handing an organization to one request at a time.
ActiveBySlugUnheld(slug) ==
    {i \in OrgIds :
        /\ orgs[i].slug = slug /\ orgs[i].is_active
        /\ \A q \in Requests :
              requests[q].slot = <<>> \/ requests[q].slot = <<None>>
              \/ requests[q].slot[1][1].id # i}

\* Organization.objects.get(slug=..., is_active=True): the matching ids.
ActiveBySlug(slug) ==
    {i \in OrgIds : orgs[i].slug = slug /\ orgs[i].is_active}

\* The lookup by id without the is_active filter.
AnyById(id) == {i \in OrgIds : i = id}

\* Organization.objects.get(id=..., is_active=True): the matching ids.
ActiveById(id) ==
    {i \in OrgIds : i = id /\ orgs[i].is_active}

(***************************************************************************)
(* A request: where it is in the middleware chain (pc), its path, its      *)
(* metadata (the two headers and the two query parameters, each None or a  *)
(* str), the attribute request.organization (slot: <<>> while the          *)
(* attribute does not exist, <<value>> once assigned, value being None or  *)
(* Some(instance)), and the response under construction.  entry is the     *)
(* tables as they were when the request arrived; writes, lookups,          *)
(* gate_saw, view_saw and response_saw record what the code did with the   *)
(* attribute: the number of assignments, the lookups of the resolver, and  *)
(* the value each later step read (<<>> before the step, then <<value>>).  *)
(* instance is the model instance a mutation has loaded and not yet saved. *)
(***************************************************************************)
NoMeta ==
    [slug_header |-> None, id_header |-> None,
     slug_param |-> None, id_param |-> None]

\* The optional arguments a mutation was called with, none given.
NoArgs ==
    [name |-> None, slug |-> None, email |-> None, status |-> None,
     due_date |-> None,
     priority |-> None, is_active |-> None]

NoResult ==
    [op |-> "", arg |-> "", given |-> NoArgs,
     data |-> {}, raised |-> "", message |-> "",
     success |-> TRUE, errors |-> <<>>, stats |-> None]

NoResponse == [status |-> 0, error |-> "", message |-> "", headers |-> {}]

IdleRequest ==
    [pc |-> "idle", path |-> "", meta |-> NoMeta, slot |-> <<>>,
     entry |-> <<<<>>, <<>>, <<>>, <<>>>>, writes |-> 0, lookups |-> <<>>, gate_saw |-> <<>>, view_saw |-> <<>>,
     response_saw |-> <<>>, handled |-> FALSE, instance |-> None,
     result |-> NoResult, response |-> NoResponse]

\* The call in progress of a function of apps/organizations/utils.py: its
\* arguments, and the value it returns or the exception it raises.  The
\* functions are called one at a time.
NoCall ==
    [fn |-> "", model |-> "", arg |-> None, out |-> {}, raised |-> "",
     message |-> "", returned |-> FALSE]

HasOrganizationAttr(req) == req.slot # <<>>
\* request.organization, once assigned.
OrganizationAttr(req) == req.slot[1]

Init ==
    /\ orgs = <<>>
    /\ projects = <<>>
    /\ tasks = <<>>
    /\ comments = <<>>
    /\ requests = [r \in Requests |-> IdleRequest]
    /\ util = NoCall

(***************************************************************************)
(* OrganizationMiddleware.process_request                                  *)
(***************************************************************************)
\* The resolver falling back to the query parameters whenever the slug
\* header is missing, whatever the id header holds.
ResolverLookupSlugOnly(meta) ==
    LET fromQuery == ~Truthy(meta.slug_header)
        org_slug == IF fromQuery THEN meta.slug_param ELSE meta.slug_header
        org_id == IF fromQuery /\ ~Truthy(meta.id_header) THEN meta.id_param
                  ELSE meta.id_header
    IN  IF Truthy(org_slug) THEN <<[by |-> "slug", value |-> org_slug[1]]>>
        ELSE IF Truthy(org_id) THEN <<[by |-> "id", value |-> org_id[1]]>>
        ELSE <<>>

\* The identifier the resolver looks up, if any: <<>> or <<[by, value]>>.
ResolverLookup(meta) ==
    LET fromQuery == ~Truthy(meta.slug_header) /\ ~Truthy(meta.id_header)
        org_slug == IF fromQuery THEN meta.slug_param ELSE meta.slug_header
        org_id == IF fromQuery THEN meta.id_param ELSE meta.id_header
    IN  IF Truthy(org_slug) THEN <<[by |-> "slug", value |-> org_slug[1]]>>
        ELSE IF Truthy(org_id) THEN <<[by |-> "id", value |-> org_id[1]]>>
        ELSE <<>>

\* The lookup's outcome: the exception it raises ("" when none) and the
\* organization found (None on DoesNotExist, which the resolver swallows).
ResolverOutcome(lookups) ==
    IF lookups = <<>> THEN [raised |-> "", organization |-> None]
    ELSE LET l == lookups[1]
             found == IF l.by = "slug" THEN ActiveBySlug(l.value)
                      ELSE IF WellFormedPk(l.value)
                           THEN ActiveById(IntOf(l.value))
                           ELSE {}
         IN  IF l.by = "id" /\ ~WellFormedPk(l.value)
             THEN [raised |-> "ValueError", organization |-> None]
             ELSE IF found = {}
                  THEN [raised |-> "", organization |-> None]
                  ELSE [raised |-> "",
                        organization |->
                            Some(OrganizationInstance(CHOOSE i \in found : TRUE))]

\* The organization kept in one place shared by the workers.
SetOrganizationShared(r, req, organization) ==
    [q \in Requests |->
        IF q = r
        THEN [req EXCEPT !.slot = <<organization>>, !.writes = req.writes + 1]
        ELSE [requests[q] EXCEPT !.slot = <<organization>>]]

\* request.organization = organization: the attribute of this request's own
\* object is assigned.
SetOrganization(r, req, organization) ==
    [requests EXCEPT ![r] =
        [req EXCEPT !.slot = <<organization>>, !.writes = req.writes + 1]]

\* A request arrives at worker r with metadata meta and path path, and the
\* tenant resolver runs.  An exception other than DoesNotExist leaves the
\* middleware chain: the attribute is never assigned and the framework
\* answers with status 500 without running the gate, the view or
\* process_response.
OrganizationMiddleware_process_request(r, meta, path) ==
    /\ requests[r].pc = "idle"
    /\ LET lookups == ResolverLookup(meta)
           outcome == ResolverOutcome(lookups)
           fresh == [IdleRequest EXCEPT !.path = path, !.meta = meta,
                                         !.entry = store,
                                         !.lookups = lookups]
       IN  requests' =
             IF outcome.raised # ""
             THEN [requests EXCEPT ![r] =
                     [fresh EXCEPT !.pc = "done",
                                   !.response = [status |-> 500,
                                                 error |-> outcome.raised,
                                                 message |-> "",
                                                 headers |-> {}]]]
             ELSE SetOrganization(r, [fresh EXCEPT !.pc = "gate"],
                                  outcome.organization)
    /\ UNCHANGED <<store, util>>

(***************************************************************************)
(* RequireOrganizationMiddleware.process_request                           *)
(***************************************************************************)
\* The exemption list without the organization endpoints.
EXEMPT_PATHS_NoOrganizations == <<"/admin/", "/graphql/">>

EXEMPT_PATHS == <<"/admin/", "/graphql/", "/api/organizations/">>

GateError == "Organization context required"
GateMessage == "Please provide organization via X-Organization-Slug header or organization_slug parameter"

BadRequest == 400

\* `not hasattr(request, 'organization') or not request.organization` holds
\* when this value is None.
GateOrganization(req) ==
    IF HasOrganizationAttr(req) THEN OrganizationAttr(req) ELSE None

\* The gate without the test for the tenant.
RequireOrganizationNoCheck(req) == None

\* The gate's answer for a request: None to let it continue, or the
\* JsonResponse it returns instead.
RequireOrganization(req) ==
    IF \E i \in DOMAIN EXEMPT_PATHS : startswith(req.path, EXEMPT_PATHS[i])
    THEN None
    ELSE IF ~startswith(req.path, "/api/")
    THEN None
    ELSE IF GateOrganization(req) = None
    THEN Some([status |-> BadRequest, error |-> GateError,
               message |-> GateMessage, headers |-> {}])
    ELSE None

RequireOrganizationMiddleware_process_request(r) ==
    /\ requests[r].pc = "gate"
    /\ LET req == requests[r]
           answer == RequireOrganization(req)
       IN  requests' =
             [requests EXCEPT ![r] =
                IF answer = None
                THEN [req EXCEPT !.pc = "view",
                                 !.gate_saw = <<GateOrganization(req)>>]
                ELSE [req EXCEPT !.pc = "response",
                                 !.gate_saw = <<GateOrganization(req)>>,
                                 !.response = answer[1]]]
    /\ UNCHANGED <<store, util>>

(***************************************************************************)
(* OrganizationMiddleware.process_response                                 *)
(***************************************************************************)
\* `hasattr(request, 'organization') and request.organization`
ResponseOrganization(req) ==
    IF HasOrganizationAttr(req) THEN OrganizationAttr(req) ELSE None

\* The response echoing the id alone.
ResponseHeadersIdOnly(req) ==
    IF ResponseOrganization(req) # None
    THEN {<<"X-Organization-ID", StrOf(ResponseOrganization(req)[1].id)>>}
    ELSE {}

ResponseHeaders(req) ==
    IF ResponseOrganization(req) # None
    THEN {<<"X-Organization-ID", StrOf(ResponseOrganization(req)[1].id)>>,
          <<"X-Organization-Slug", ResponseOrganization(req)[1].slug>>}
    ELSE {}

OrganizationMiddleware_process_response(r) ==
    /\ requests[r].pc = "response"
    /\ LET req == requests[r]
       IN  requests' =
             [requests EXCEPT ![r] =
                [req EXCEPT !.pc = "done",
                            !.response_saw = <<ResponseOrganization(req)>>,
                            !.response.headers = ResponseHeaders(req)]]
    /\ UNCHANGED <<store, util>>

\* The response has been sent: the request object is gone and the worker
\* takes the next request.
request_finished(r) ==
    /\ requests[r].pc = "done"
    /\ requests' = [requests EXCEPT ![r] = IdleRequest]
    /\ UNCHANGED <<store, util>>

(***************************************************************************)
(* The GraphQL view.  A resolver or mutation runs as the view of a request *)
(* to the GraphQL endpoint with the request as info.context.  Its result   *)
(* is recorded in the request: data is the set of entities returned (as    *)
(* <<model, pk>>), raised the exception that left the resolver ("" when    *)
(* none; graphene reports it in the errors of a response of status 200),   *)
(* success / errors the mutation payload.  Primary-key arguments are       *)
(* graphene IDs: text.                                                     *)
(***************************************************************************)
GraphQLPath == "/graphql/"

AtGraphQLView(r) ==
    /\ requests[r].pc = "view"
    /\ startswith(requests[r].path, GraphQLPath)

\* getattr(info.context, 'organization', None)
ContextOrganization(req) ==
    IF HasOrganizationAttr(req) THEN OrganizationAttr(req) ELSE None

\* The tenant check without the comparison of the owner.
TenantMismatchNever(organization, owner) == FALSE

\* `organization and <owner> != organization`: the tenant check of the
\* single-entity and by-parent resolvers; owner is the pk of the entity's
\* root organization.
TenantMismatch(organization, owner) ==
    organization # None /\ owner # organization[1].id

Returned(r, result) ==
    [requests EXCEPT ![r] =
        [requests[r] EXCEPT !.pc = "response", !.handled = TRUE,
                            !.view_saw =
                                <<ContextOrganization(requests[r])>>,
                            !.result = result,
                            !.response = [NoResponse EXCEPT !.status = 200]]]

Data(op, arg, data) == [NoResult EXCEPT !.op = op, !.arg = arg, !.data = data]

Raised(op, arg, exception, message) ==
    [NoResult EXCEPT !.op = op, !.arg = arg, !.raised = exception,
                     !.message = message]

(***************************************************************************)
(* ProjectQuery                                                            *)
(***************************************************************************)
ProjectResult(req, id) ==
    IF ~WellFormedPk(id) THEN Raised("project", id, "ValueError", "")
    ELSE IF IntOf(id) \notin ProjectIds THEN Data("project", id, {})
    ELSE IF TenantMismatch(ContextOrganization(req),
                           ProjectOrganization(IntOf(id)))
    THEN Raised("project", id, "PermissionDenied",
                "Access denied to this project")
    ELSE Data("project", id, {<<"Project", IntOf(id)>>})

resolve_project(r, id) ==
    /\ AtGraphQLView(r)
    /\ requests' = Returned(r, ProjectResult(requests[r], id))
    /\ UNCHANGED <<store, util>>

ProjectsResult == Data("projects", "", {<<"Project", p>> : p \in ProjectIds})

resolve_projects(r) ==
    /\ AtGraphQLView(r)
    /\ requests' = Returned(r, ProjectsResult)
    /\ UNCHANGED <<store, util>>

\* The organization the by-organization resolvers scope to, from the
\* argument and the context: the exception raised, whether the requested
\* organization is missing, and the scope (None: every organization).
RequestedScope(req, organization_id) ==
    LET context_org == ContextOrganization(req)
        none == [raised |-> "", missing |-> FALSE, organization |-> None]
    IN  IF Truthy(organization_id)
        THEN IF ~WellFormedPk(organization_id[1])
             THEN [none EXCEPT !.raised = "ValueError"]
             ELSE IF IntOf(organization_id[1]) \notin OrgIds
             THEN [none EXCEPT !.missing = TRUE]
             ELSE IF TenantMismatch(context_org, IntOf(organization_id[1]))
             THEN [none EXCEPT !.raised = "PermissionDenied"]
             ELSE [none EXCEPT !.organization =
                       Some(OrganizationInstance(IntOf(organization_id[1])))]
        ELSE [none EXCEPT !.organization = context_org]

ScopedProjects(organization) ==
    IF organization = None THEN ProjectIds
    ELSE {p \in ProjectIds : ProjectOrganization(p) = organization[1].id}

ArgText(a) == IF a = None THEN "" ELSE a[1]

ProjectsByOrganizationResult(req, organization_id) ==
    LET scope == RequestedScope(req, organization_id)
        op == "projectsByOrganization"
        arg == ArgText(organization_id)
    IN  IF scope.raised = "PermissionDenied"
        THEN Raised(op, arg, "PermissionDenied",
                    "Access denied to this organization")
        ELSE IF scope.raised # "" THEN Raised(op, arg, scope.raised, "")
        ELSE IF scope.missing THEN Data(op, arg, {})
        ELSE Data(op, arg,
                  {<<"Project", p>> : p \in ScopedProjects(scope.organization)})

resolve_projects_by_organization(r, organization_id) ==
    /\ AtGraphQLView(r)
    /\ requests' =
          Returned(r, ProjectsByOrganizationResult(requests[r], organization_id))
    /\ UNCHANGED <<store, util>>

\* Project.task_count, over the tasks of project p.
ProjectTasks(p) == {t \in TaskIds : tasks[t].project = p}
task_count(p) == Cardinality(ProjectTasks(p))

\* The derived values of a project.  A rate is kept in hundredths: 2500 is
\* 25.0.  round(x, 2) is the nearest multiple of 0.01, the even one on a
\* tie.
\* The count of the DONE tasks of every project.
completed_tasks_anywhere(p) ==
    Cardinality({t \in TaskIds : tasks[t].status = "DONE"})

\* self.tasks.filter(status='DONE').count()
completed_tasks(p) ==
    Cardinality({t \in TaskIds :
                    tasks[t].project = p /\ tasks[t].status = "DONE"})

\* round(n / d * 100, 2), in hundredths.
RoundedPercent(n, d) ==
    LET q == (n * 10000) \div d
        rest == (n * 10000) % d
    IN  IF 2 * rest < d THEN q
        ELSE IF 2 * rest > d THEN q + 1
        ELSE IF q % 2 = 0 THEN q ELSE q + 1

completion_rate(p) ==
    IF task_count(p) = 0 THEN 0
    ELSE RoundedPercent(completed_tasks(p), task_count(p))

\* ProjectType.resolve_completion_rate on the project that the query
\* project(id) returns.
CompletionRateResult(req, id) ==
    LET found == ProjectResult(req, id)
    IN  IF found.raised # "" \/ found.data = {} THEN found
        ELSE [found EXCEPT
                !.op = "completionRate",
                !.stats = Some([completion_rate |->
                                   completion_rate(IntOf(id))])]

resolve_completion_rate(r, id) ==
    /\ AtGraphQLView(r)
    /\ requests' = Returned(r, CompletionRateResult(requests[r], id))
    /\ UNCHANGED <<store, util>>

\* Project.is_overdue without the test of the status.
Project_is_overdue_any_status(p, today) ==
    IF projects[p].due_date = None THEN FALSE
    ELSE today > projects[p].due_date[1]

\* Project.is_overdue, today being timezone.now().date(); a date is the
\* number of its day.
Project_is_overdue(p, today) ==
    IF projects[p].due_date = None THEN FALSE
    ELSE today > projects[p].due_date[1] /\ projects[p].status # "COMPLETED"

\* Task.is_overdue, now being timezone.now(); an instant is a number.
Task_is_overdue(t, now) ==
    IF tasks[t].due_date = None THEN FALSE
    ELSE now > tasks[t].due_date[1] /\ tasks[t].status # "DONE"

\* ProjectType.resolve_is_overdue on the project that the query project(id)
\* returns, at the time now.
ProjectIsOverdueResult(req, id, now) ==
    LET found == ProjectResult(req, id)
    IN  IF found.raised # "" \/ found.data = {} THEN found
        ELSE [found EXCEPT
                !.op = "projectIsOverdue",
                !.stats = Some([is_overdue |->
                                   Project_is_overdue(IntOf(id), now),
                                now |-> now])]

ProjectType_resolve_is_overdue(r, id, now) ==
    /\ AtGraphQLView(r)
    /\ requests' = Returned(r, ProjectIsOverdueResult(requests[r], id, now))
    /\ UNCHANGED <<store, util>>

RECURSIVE SumOver(_, _)
SumOver(S, f) ==
    IF S = {} THEN 0
    ELSE LET x == CHOOSE y \in S : TRUE
         IN  f[x] + SumOver(S \ {x}, f)

\* today is timezone.now().date() of the call.
ProjectStatsResult(req, organization_id, today) ==
    LET scope == RequestedScope(req, organization_id)
        op == "projectStats"
        arg == ArgText(organization_id)
        selected == ScopedProjects(scope.organization)
    IN  IF scope.raised = "PermissionDenied"
        THEN Raised(op, arg, "PermissionDenied",
                    "Access denied to this organization")
        ELSE IF scope.raised # "" THEN Raised(op, arg, scope.raised, "")
        ELSE IF scope.missing THEN Data(op, arg, {})
        ELSE [Data(op, arg,
                   {<<"Project", p>> : p \in selected}
                   \cup {<<"Task", t>> :
                           t \in UNION {ProjectTasks(p) : p \in selected}})
              EXCEPT !.stats =
                Some([total_projects |-> Cardinality(selected),
                      overdue_projects |->
                        Cardinality(
                            {p \in selected :
                                /\ projects[p].due_date # None
                                /\ projects[p].due_date[1] < today
                                /\ projects[p].status
                                     \in {"ACTIVE", "ON_HOLD"}}),
                      total_tasks |->
                        SumOver(selected,
                                [p \in selected |-> task_count(p)]),
                      completed_tasks |->
                        SumOver(selected,
                                [p \in selected |-> completed_tasks(p)]),
                      today |-> today])]

resolve_project_stats(r, organization_id, today) ==
    /\ AtGraphQLView(r)
    /\ requests' = Returned(r, ProjectStatsResult(requests[r],
                                                  organization_id, today))
    /\ UNCHANGED <<store, util>>

(***************************************************************************)
(* TaskQuery                                                               *)
(***************************************************************************)
TaskResult(req, id) ==
    IF ~WellFormedPk(id) THEN Raised("task", id, "ValueError", "")
    ELSE IF IntOf(id) \notin TaskIds THEN Data("task", id, {})
    ELSE IF TenantMismatch(ContextOrganization(req),
                           TaskOrganization(IntOf(id)))
    THEN Raised("task", id, "PermissionDenied", "Access denied to this task")
    ELSE Data("task", id, {<<"Task", IntOf(id)>>})

resolve_task(r, id) ==
    /\ AtGraphQLView(r)
    /\ requests' = Returned(r, TaskResult(requests[r], id))
    /\ UNCHANGED <<store, util>>

\* TaskType.resolve_is_overdue on the task that the query task(id) returns,
\* at the time now.
TaskIsOverdueResult(req, id, now) ==
    LET found == TaskResult(req, id)
    IN  IF found.raised # "" \/ found.data = {} THEN found
        ELSE [found EXCEPT
                !.op = "taskIsOverdue",
                !.stats = Some([is_overdue |-> Task_is_overdue(IntOf(id), now),
                                now |-> now])]

TaskType_resolve_is_overdue(r, id, now) ==
    /\ AtGraphQLView(r)
    /\ requests' = Returned(r, TaskIsOverdueResult(requests[r], id, now))
    /\ UNCHANGED <<store, util>>

TasksResult == Data("tasks", "", {<<"Task", t>> : t \in TaskIds})

resolve_tasks(r) ==
    /\ AtGraphQLView(r)
    /\ requests' = Returned(r, TasksResult)
    /\ UNCHANGED <<store, util>>

TasksByProjectResult(req, project_id) ==
    IF ~WellFormedPk(project_id)
    THEN Raised("tasksByProject", project_id, "ValueError", "")
    ELSE IF IntOf(project_id) \notin ProjectIds
    THEN Data("tasksByProject", project_id, {})
    ELSE IF TenantMismatch(ContextOrganization(req),
                           ProjectOrganization(IntOf(project_id)))
    THEN Raised("tasksByProject", project_id, "PermissionDenied",
                "Access denied to this project")
    ELSE Data("tasksByProject", project_id,
              {<<"Task", t>> : t \in ProjectTasks(IntOf(project_id))})

resolve_tasks_by_project(r, project_id) ==
    /\ AtGraphQLView(r)
    /\ requests' = Returned(r, TasksByProjectResult(requests[r], project_id))
    /\ UNCHANGED <<store, util>>

TaskCommentResult(req, id) ==
    IF ~WellFormedPk(id) THEN Raised("taskComment", id, "ValueError", "")
    ELSE IF IntOf(id) \notin CommentIds THEN Data("taskComment", id, {})
    ELSE IF TenantMismatch(ContextOrganization(req),
                           CommentOrganization(IntOf(id)))
    THEN Raised("taskComment", id, "PermissionDenied",
                "Access denied to this comment")
    ELSE Data("taskComment", id, {<<"TaskComment", IntOf(id)>>})

resolve_task_comment(r, id) ==
    /\ AtGraphQLView(r)
    /\ requests' = Returned(r, TaskCommentResult(requests[r], id))
    /\ UNCHANGED <<store, util>>

TaskCommentsResult(req, task_id) ==
    IF ~WellFormedPk(task_id)
    THEN Raised("taskComments", task_id, "ValueError", "")
    ELSE IF IntOf(task_id) \notin TaskIds
    THEN Data("taskComments", task_id, {})
    ELSE IF TenantMismatch(ContextOrganization(req),
                           TaskOrganization(IntOf(task_id)))
    THEN Raised("taskComments", task_id, "PermissionDenied",
                "Access denied to this task")
    ELSE Data("taskComments", task_id,
              {<<"TaskComment", c>> :
                  c \in {k \in CommentIds : comments[k].task = IntOf(task_id)}})

resolve_task_comments(r, task_id) ==
    /\ AtGraphQLView(r)
    /\ requests' = Returned(r, TaskCommentsResult(requests[r], task_id))
    /\ UNCHANGED <<store, util>>

(***************************************************************************)
(* Mutations.  Every mutation body runs inside try / except Exception: a   *)
(* failure is returned as success = False with the error text.             *)
(***************************************************************************)
Succeeded(op, arg, given, entity) ==
    [NoResult EXCEPT !.op = op, !.arg = arg, !.given = given,
                     !.data = {entity}]

\* The exception leaves the mutation instead of being caught.
FailedRaises(op, arg, given, error) ==
    [NoResult EXCEPT !.op = op, !.arg = arg, !.given = given,
                     !.raised = error]

Failed(op, arg, given, error) ==
    [NoResult EXCEPT !.op = op, !.arg = arg, !.given = given,
                     !.success = FALSE, !.errors = <<error>>]

\* Organization.save without the derivation.
OrganizationSaveKeepsSlug(row) == row

\* Organization.save deriving the slug from the name on every save.
OrganizationSaveAlwaysDerives(row) == [row EXCEPT !.slug = slugify(row.name)]

\* Organization.save: the slug is derived from the name when it is empty.
OrganizationSave(row) ==
    IF row.slug = "" THEN [row EXCEPT !.slug = slugify(row.name)] ELSE row

\* The unique constraint on Organization.slug, for the row saved as pk id
\* (0 for an insert).
SlugTakenNever(slug, id) == FALSE

SlugTaken(slug, id) == \E i \in OrgIds : i # id /\ orgs[i].slug = slug

\* Organization.objects.create(...): the row inserted, or the
\* IntegrityError of the unique constraint.  create() saves without
\* full_clean(): no validator of a field runs.
CreateOrganizationMutation_mutate(r, name, contact_email, slug) ==
    /\ AtGraphQLView(r)
    /\ LET row == OrganizationSave([name |-> name, slug |-> ArgText(slug),
                                    contact_email |-> contact_email,
                                    is_active |-> TRUE])
           op == "createOrganization"
           given == [NoArgs EXCEPT !.name = Some(name), !.slug = slug,
                                   !.email = Some(contact_email)]
       IN  IF SlugTaken(row.slug, 0)
           THEN /\ requests' =
                     Returned(r, Failed(op, name, given, "IntegrityError"))
                /\ UNCHANGED orgs
           ELSE /\ Len(orgs) < MaxOrgs
                /\ orgs' = Append(orgs, row)
                /\ requests' =
                     Returned(r, Succeeded(op, name, given,
                                           <<"Organization", Len(orgs) + 1>>))
    /\ UNCHANGED <<projects, tasks, comments, util>>

\* The loop over kwargs, giving up the slug of a deactivated organization.
OrganizationWithFieldsUnslugged(row, name, contact_email, is_active) ==
    [row EXCEPT !.name = IF name # None THEN name[1] ELSE @,
                !.contact_email =
                    IF contact_email # None THEN contact_email[1] ELSE @,
                !.is_active = IF is_active # None THEN is_active[1] ELSE @,
                !.slug = IF is_active = Some(FALSE) THEN "inactive" ELSE @]

\* The loop over kwargs: a field is assigned when its value is not None.
OrganizationWithFields(row, name, contact_email, is_active) ==
    [row EXCEPT !.name = IF name # None THEN name[1] ELSE @,
                !.contact_email =
                    IF contact_email # None THEN contact_email[1] ELSE @,
                !.is_active = IF is_active # None THEN is_active[1] ELSE @]

UpdateOrganizationMutation_mutate(r, id, name, contact_email, is_active) ==
    /\ AtGraphQLView(r)
    /\ LET op == "updateOrganization"
           given == [NoArgs EXCEPT !.name = name, !.email = contact_email,
                                   !.is_active = is_active]
       IN  IF ~WellFormedPk(id)
           THEN /\ requests' = Returned(r, Failed(op, id, given, "ValueError"))
                /\ UNCHANGED orgs
           ELSE IF IntOf(id) \notin OrgIds
           THEN /\ requests' =
                     Returned(r, Failed(op, id, given,
                                        "Organization not found"))
                /\ UNCHANGED orgs
           ELSE LET pk == IntOf(id)
                    row == OrganizationSave(
                             OrganizationWithFields(orgs[pk], name,
                                                    contact_email, is_active))
                IN  IF SlugTaken(row.slug, pk)
                    THEN /\ requests' =
                              Returned(r, Failed(op, id, given,
                                                 "IntegrityError"))
                         /\ UNCHANGED orgs
                    ELSE /\ orgs' = [orgs EXCEPT ![pk] = row]
                         /\ requests' =
                              Returned(r, Succeeded(op, id, given,
                                                    <<"Organization", pk>>))
    /\ UNCHANGED <<projects, tasks, comments, util>>

\* updateOrganization as the two statements other requests can run
\* between: Organization.objects.get(pk=id) loads the instance, and after
\* the loop over kwargs organization.save() writes every field of it.
UpdateOrganizationMutation_get(r, id, name, contact_email, is_active) ==
    /\ AtGraphQLView(r)
    /\ LET op == "updateOrganization"
           given == [NoArgs EXCEPT !.name = name, !.email = contact_email,
                                   !.is_active = is_active]
       IN  IF ~WellFormedPk(id)
           THEN requests' = Returned(r, Failed(op, id, given, "ValueError"))
           ELSE IF IntOf(id) \notin OrgIds
           THEN requests' =
                    Returned(r, Failed(op, id, given,
                                       "Organization not found"))
           ELSE requests' =
                    [requests EXCEPT
                        ![r].pc = "saving",
                        ![r].instance = Some(orgs[IntOf(id)]),
                        ![r].result =
                            [NoResult EXCEPT !.op = op, !.arg = id,
                                             !.given = given]]
    /\ UNCHANGED <<store, util>>

UpdateOrganizationMutation_save(r) ==
    /\ requests[r].pc = "saving"
    /\ LET res == requests[r].result
           pk == IntOf(res.arg)
           row == OrganizationSave(
                    OrganizationWithFields(requests[r].instance[1],
                                           res.given.name, res.given.email,
                                           res.given.is_active))
           answer == IF SlugTaken(row.slug, pk)
                     THEN Failed(res.op, res.arg, res.given, "IntegrityError")
                     ELSE Succeeded(res.op, res.arg, res.given,
                                    <<"Organization", pk>>)
       IN  /\ orgs' = IF SlugTaken(row.slug, pk)
                      THEN orgs
                      ELSE [orgs EXCEPT ![pk] = row]
           /\ requests' = [Returned(r, answer) EXCEPT ![r].instance = None]
    /\ UNCHANGED <<projects, tasks, comments, util>>

\* unique_together = ['organization', 'name'], for the row saved as pk id
\* (0 for an insert).
NameTakenNever(organization, name, id) == FALSE

NameTaken(organization, name, id) ==
    \E p \in ProjectIds :
        /\ p # id
        /\ projects[p].organization = organization
        /\ projects[p].name = name

\* `status or 'ACTIVE'`
StatusOrActive(status) == IF Truthy(status) THEN status[1] ELSE "ACTIVE"

CreateProjectMutation_mutate(r, organization_id, name, status, due_date) ==
    /\ AtGraphQLView(r)
    /\ LET op == "createProject"
           given == [NoArgs EXCEPT !.name = Some(name), !.status = status,
                                   !.due_date = due_date]
       IN  IF ~WellFormedPk(organization_id)
           THEN /\ requests' =
                     Returned(r, Failed(op, organization_id, given,
                                        "ValueError"))
                /\ UNCHANGED projects
           ELSE IF IntOf(organization_id) \notin OrgIds
           THEN /\ requests' =
                     Returned(r, Failed(op, organization_id, given,
                                        "Organization not found"))
                /\ UNCHANGED projects
           ELSE IF NameTaken(IntOf(organization_id), name, 0)
           THEN /\ requests' =
                     Returned(r, Failed(op, organization_id, given,
                                        "IntegrityError"))
                /\ UNCHANGED projects
           ELSE /\ Len(projects) < MaxProjects
                /\ projects' =
                     Append(projects,
                            [organization |-> IntOf(organization_id),
                             name |-> name,
                             status |-> StatusOrActive(status),
                             due_date |-> due_date])
                /\ requests' =
                     Returned(r, Succeeded(op, organization_id, given,
                                           <<"Project", Len(projects) + 1>>))
    /\ UNCHANGED <<orgs, tasks, comments, util>>

\* The loop over kwargs (name, description, status, due_date): a field is
\* assigned when its value is not None.
ProjectWithFieldsMoved(row, name, status, due_date) ==
    [row EXCEPT !.name = IF name # None THEN name[1] ELSE @,
                !.status = IF status # None THEN status[1] ELSE @,
                !.due_date = IF due_date # None THEN due_date ELSE @,
                !.organization = 1]

ProjectWithFields(row, name, status, due_date) ==
    [row EXCEPT !.name = IF name # None THEN name[1] ELSE @,
                !.status = IF status # None THEN status[1] ELSE @,
                !.due_date = IF due_date # None THEN due_date ELSE @]

UpdateProjectMutation_mutate(r, id, name, status, due_date) ==
    /\ AtGraphQLView(r)
    /\ LET op == "updateProject"
           given == [NoArgs EXCEPT !.name = name, !.status = status,
                                   !.due_date = due_date]
       IN  IF ~WellFormedPk(id)
           THEN /\ requests' = Returned(r, Failed(op, id, given, "ValueError"))
                /\ UNCHANGED projects
           ELSE IF IntOf(id) \notin ProjectIds
           THEN /\ requests' =
                     Returned(r, Failed(op, id, given, "Project not found"))
                /\ UNCHANGED projects
           ELSE LET pk == IntOf(id)
                    row == ProjectWithFields(projects[pk], name, status,
                                             due_date)
                IN  IF NameTaken(row.organization, row.name, pk)
                    THEN /\ requests' =
                              Returned(r, Failed(op, id, given,
                                                 "IntegrityError"))
                         /\ UNCHANGED projects
                    ELSE /\ projects' = [projects EXCEPT ![pk] = row]
                         /\ requests' =
                              Returned(r, Succeeded(op, id, given,
                                                    <<"Project", pk>>))
    /\ UNCHANGED <<orgs, tasks, comments, util>>

\* kwargs.get(key, default): the default when the argument was omitted.
KwargOr(value, default) == IF value = None THEN default ELSE value[1]

CreateTaskMutation_mutate(r, project_id, status, priority, assignee_email, due_date) ==
    /\ AtGraphQLView(r)
    /\ LET op == "createTask"
           given == [NoArgs EXCEPT !.status = status, !.priority = priority,
                                   !.email = assignee_email,
                                   !.due_date = due_date]
       IN  IF ~WellFormedPk(project_id)
           THEN /\ requests' =
                     Returned(r, Failed(op, project_id, given, "ValueError"))
                /\ UNCHANGED tasks
           ELSE IF IntOf(project_id) \notin ProjectIds
           THEN /\ requests' =
                     Returned(r, Failed(op, project_id, given,
                                        "Project not found"))
                /\ UNCHANGED tasks
           ELSE /\ Len(tasks) < MaxTasks
                /\ tasks' =
                     Append(tasks,
                            [project |-> IntOf(project_id),
                             status |-> KwargOr(status, "TODO"),
                             priority |-> KwargOr(priority, "MEDIUM"),
                             assignee_email |-> KwargOr(assignee_email, ""),
                             due_date |-> due_date])
                /\ requests' =
                     Returned(r, Succeeded(op, project_id, given,
                                           <<"Task", Len(tasks) + 1>>))
    /\ UNCHANGED <<orgs, projects, comments, util>>

\* The loop over kwargs (title, description, status, priority,
\* assignee_email, due_date): a field is assigned when its value is not
\* None.
TaskWithFields(row, status, priority, assignee_email, due_date) ==
    [row EXCEPT !.status = IF status # None THEN status[1] ELSE @,
                !.priority = IF priority # None THEN priority[1] ELSE @,
                !.assignee_email =
                    IF assignee_email # None THEN assignee_email[1] ELSE @,
                !.due_date = IF due_date # None THEN due_date ELSE @]

UpdateTaskMutation_mutate(r, id, status, priority, assignee_email, due_date) ==
    /\ AtGraphQLView(r)
    /\ LET op == "updateTask"
           given == [NoArgs EXCEPT !.status = status, !.priority = priority,
                                   !.email = assignee_email,
                                   !.due_date = due_date]
       IN  IF ~WellFormedPk(id)
           THEN /\ requests' = Returned(r, Failed(op, id, given, "ValueError"))
                /\ UNCHANGED tasks
           ELSE IF IntOf(id) \notin TaskIds
           THEN /\ requests' =
                     Returned(r, Failed(op, id, given, "Task not found"))
                /\ UNCHANGED tasks
           ELSE /\ tasks' =
                     [tasks EXCEPT ![IntOf(id)] =
                        TaskWithFields(@, status, priority, assignee_email,
                                       due_date)]
                /\ requests' =
                     Returned(r, Succeeded(op, id, given,
                                           <<"Task", IntOf(id)>>))
    /\ UNCHANGED <<orgs, projects, comments, util>>

AddTaskCommentMutation_mutate(r, task_id, author_email) ==
    /\ AtGraphQLView(r)
    /\ LET op == "addTaskComment"
           given == [NoArgs EXCEPT !.email = Some(author_email)]
       IN  IF ~WellFormedPk(task_id)
           THEN /\ requests' =
                     Returned(r, Failed(op, task_id, given, "ValueError"))
                /\ UNCHANGED comments
           ELSE IF IntOf(task_id) \notin TaskIds
           THEN /\ requests' =
                     Returned(r, Failed(op, task_id, given, "Task not found"))
                /\ UNCHANGED comments
           ELSE /\ Len(comments) < MaxComments
                /\ comments' =
                     Append(comments, [task |-> IntOf(task_id),
                                       author_email |-> author_email])
                /\ requests' =
                     Returned(r, Succeeded(op, task_id, given,
                                           <<"TaskComment", Len(comments) + 1>>))
    /\ UNCHANGED <<orgs, projects, tasks, util>>

\* The view of a path outside the GraphQL endpoint (its code is outside the
\* modelled files): it is invoked and answers.
other_view(r) ==
    /\ requests[r].pc = "view"
    /\ ~startswith(requests[r].path, GraphQLPath)
    /\ requests' = Returned(r, [NoResult EXCEPT !.op = "view"])
    /\ UNCHANGED <<store, util>>

(***************************************************************************)
(* apps/organizations/utils.py                                             *)
(***************************************************************************)
\* The properties the model classes define.
ModelProperties(model) ==
    CASE model = "Organization" -> {"project_count", "active_project_count"}
      [] model = "Project" ->
           {"task_count", "completed_tasks", "completion_rate", "is_overdue"}
      [] model = "Task" -> {"organization", "is_overdue", "comment_count"}
      [] model = "TaskComment" -> {"organization"}

\* The names QuerySet.filter resolves for a model: its fields and reverse
\* relations.  A property is not one of them.
ModelLookups(model) ==
    CASE model = "Organization" ->
           {"id", "name", "slug", "contact_email", "description", "is_active",
            "created_at", "updated_at", "projects"}
      [] model = "Project" ->
           {"id", "organization", "name", "description", "status", "due_date",
            "created_at", "updated_at", "tasks"}
      [] model = "Task" ->
           {"id", "project", "title", "description", "status", "priority",
            "assignee_email", "due_date", "created_at", "updated_at",
            "comments"}
      [] model = "TaskComment" ->
           {"id", "task", "content", "author_email", "created_at",
            "updated_at"}

\* hasattr(model, name): a model class has its fields, its reverse relations
\* and its properties as attributes.
HasAttr(model, name) ==
    name \in ModelLookups(model) \cup ModelProperties(model)

\* model.objects.all(), as primary keys.
AllRows(model) ==
    CASE model = "Organization" -> OrgIds
      [] model = "Project" -> ProjectIds
      [] model = "Task" -> TaskIds
      [] model = "TaskComment" -> CommentIds

\* The organization a row reaches along a lookup path, as a primary key.
AlongPath(model, path, pk) ==
    CASE path = "organization" -> projects[pk].organization
      [] path = "project__organization" ->
           projects[tasks[pk].project].organization
      [] path = "task__project__organization" ->
           projects[tasks[comments[pk].task].project].organization

\* queryset.filter(<path>=organization): FieldError when the first name of
\* the path is no field of the model; no row matches None (the foreign keys
\* are not nullable).
QuerySetFilter(model, queryset, path, first, organization) ==
    IF first \notin ModelLookups(model)
    THEN [raised |-> "FieldError", out |-> {}]
    ELSE [raised |-> "",
          out |-> IF organization = None THEN {}
                  ELSE {pk \in queryset :
                          AlongPath(model, path, pk) = organization[1].id}]

\* The filter returning the whole queryset for a model without a relation.
FilterByOrganizationOpen(model, queryset, organization) ==
    IF HasAttr(model, "organization")
    THEN QuerySetFilter(model, queryset, "organization", "organization",
                        organization)
    ELSE IF HasAttr(model, "project")
    THEN QuerySetFilter(model, queryset, "project__organization", "project",
                        organization)
    ELSE IF HasAttr(model, "task")
    THEN QuerySetFilter(model, queryset, "task__project__organization",
                        "task", organization)
    ELSE [raised |-> "", out |-> queryset]

\* MultiTenantQuerySet.filter_by_organization
FilterByOrganization(model, queryset, organization) ==
    IF HasAttr(model, "organization")
    THEN QuerySetFilter(model, queryset, "organization", "organization",
                        organization)
    ELSE IF HasAttr(model, "project")
    THEN QuerySetFilter(model, queryset, "project__organization", "project",
                        organization)
    ELSE IF HasAttr(model, "task")
    THEN QuerySetFilter(model, queryset, "task__project__organization",
                        "task", organization)
    ELSE [raised |-> "", out |-> {}]

\* A call of filter_by_organization on model.objects.all().
filter_by_organization(model, organization) ==
    /\ util = NoCall
    /\ LET res == FilterByOrganization(model, AllRows(model), organization)
       IN  util' = [NoCall EXCEPT !.fn = "filter_by_organization",
                                  !.model = model, !.arg = organization,
                                  !.out = res.out, !.raised = res.raised]
    /\ UNCHANGED <<store, requests>>

\* The validation without the test of is_active.
ValidateOrganizationAccessNoActive(organization) ==
    IF organization = None
    THEN [raised |-> "PermissionDenied", message |-> "Organization not found",
          returned |-> FALSE]
    ELSE [raised |-> "", message |-> "", returned |-> TRUE]

\* validate_organization_access: the exception and message it raises, or
\* its return value True.
ValidateOrganizationAccess(organization) ==
    IF organization = None
    THEN [raised |-> "PermissionDenied", message |-> "Organization not found",
          returned |-> FALSE]
    ELSE IF ~organization[1].is_active
    THEN [raised |-> "PermissionDenied",
          message |-> "Organization is not active", returned |-> FALSE]
    ELSE [raised |-> "", message |-> "", returned |-> TRUE]

validate_organization_access(organization) ==
    /\ util = NoCall
    /\ LET res == ValidateOrganizationAccess(organization)
       IN  util' = [NoCall EXCEPT !.fn = "validate_organization_access",
                                  !.arg = organization,
                                  !.raised = res.raised,
                                  !.message = res.message,
                                  !.returned = res.returned]
    /\ UNCHANGED <<store, requests>>

\* OrganizationPermissionMixin.check_organization_permission
CheckOrganizationPermission(organization) ==
    IF organization = None
    THEN [raised |-> "PermissionDenied",
          message |-> "Organization context required", returned |-> FALSE]
    ELSE IF ~organization[1].is_active
    THEN [raised |-> "PermissionDenied",
          message |-> "Organization is not active", returned |-> FALSE]
    ELSE [raised |-> "", message |-> "", returned |-> TRUE]

check_organization_permission(organization) ==
    /\ util = NoCall
    /\ LET res == CheckOrganizationPermission(organization)
       IN  util' = [NoCall EXCEPT !.fn = "check_organization_permission",
                                  !.arg = organization,
                                  !.raised = res.raised,
                                  !.message = res.message,
                                  !.returned = res.returned]
    /\ UNCHANGED <<store, requests>>

\* The call is over: its caller has taken the value or the exception.
call_returned ==
    /\ util # NoCall
    /\ util' = NoCall
    /\ UNCHANGED <<store, requests>>

(***************************************************************************)
(* Inputs.                                                                 *)
(***************************************************************************)
Paths ==
    {"/graphql/", "/admin/login/", "/api/organizations/1/",
     "/api/organizations", "/api/projects/", "/api", "/"}

OrganizationNames == {"Acme", "Beta Co"}

ProjectNames == {"Web", "App"}
ProjectTargets == {"1", "2"}

\* An address EmailValidator accepts.
GoodEmail == "a@b.co"

\* Primary keys as text: rows that may exist, a row that does not, and
\* text that is no number.
PkArgs == {"1", "2", "3", "x"}

Models == {"Organization", "Project", "Task", "TaskComment"}

\* The organizations a caller can hold: None or an instance loaded from the
\* table.
OrganizationValues == {None} \cup {Some(OrganizationInstance(i)) : i \in OrgIds}

Meta(slug_header, id_header, slug_param, id_param) ==
    [slug_header |-> slug_header, id_header |-> id_header,
     slug_param |-> slug_param, id_param |-> id_param]

SlugValues == {None, Some(""), Some("acme"), Some("beta-co")}
IdValues == {None, Some("1"), Some("2"), Some("x")}

\* Every combination of the four identifiers.
AllMetas ==
    {Meta(sh, ih, sp, ip) : sh \in SlugValues, ih \in IdValues,
                            sp \in SlugValues, ip \in IdValues}

\* No identifier, one slug header, or an id header that is no number.
HeaderMetas ==
    {Meta(sh, None, None, None) : sh \in {None, Some("acme"), Some("beta-co")}}
    \cup {Meta(None, Some("x"), None, None)}

\* One slug header or none.
SlugHeaderMetas ==
    {Meta(sh, None, None, None) : sh \in {None, Some("acme"), Some("beta-co")}}

OptionalPkArgs == {None} \cup {Some(a) : a \in PkArgs}

(***************************************************************************)
(* Spec: the GraphQL API.  One worker serves one request after another;    *)
(* each request reaches the GraphQL endpoint with or without a tenant and  *)
(* runs one query, or one mutation that creates a row.                     *)
(***************************************************************************)
Next ==
    \/ \E r \in Sequential, m \in SlugHeaderMetas :
          OrganizationMiddleware_process_request(r, m, GraphQLPath)
    \/ \E r \in Sequential : RequireOrganizationMiddleware_process_request(r)
    \/ \E r \in Sequential : OrganizationMiddleware_process_response(r)
    \/ \E r \in Sequential : request_finished(r)
    \/ \E r \in Sequential, id \in PkArgs : resolve_project(r, id)
    \/ \E r \in Sequential : resolve_projects(r)
    \/ \E r \in Sequential, id \in OptionalPkArgs :
          resolve_projects_by_organization(r, id)
    \/ \E r \in Sequential, id \in OptionalPkArgs, today \in {1} :
          resolve_project_stats(r, id, today)
    \/ \E r \in Sequential, id \in PkArgs : resolve_task(r, id)
    \/ \E r \in Sequential : resolve_tasks(r)
    \/ \E r \in Sequential, id \in PkArgs : resolve_tasks_by_project(r, id)
    \/ \E r \in Sequential, id \in PkArgs : resolve_task_comment(r, id)
    \/ \E r \in Sequential, id \in PkArgs : resolve_task_comments(r, id)
    \/ \E r \in Sequential, name \in OrganizationNames :
          CreateOrganizationMutation_mutate(r, name, GoodEmail, None)
    \/ \E r \in Sequential, id \in PkArgs :
          CreateProjectMutation_mutate(r, id, "Web", None, None)
    \/ \E r \in Sequential, id \in PkArgs :
          CreateTaskMutation_mutate(r, id, None, None, None, None)
    \/ \E r \in Sequential, id \in PkArgs :
          AddTaskCommentMutation_mutate(r, id, GoodEmail)

Spec == Init /\ [][Next]_vars

(***************************************************************************)
(* SpecResolver: the tenant resolver over every combination of the four    *)
(* identifiers, on organizations that are created, deactivated and         *)
(* reactivated.                                                            *)
(***************************************************************************)
ActiveFlags == {Some(TRUE), Some(FALSE)}

NextResolver ==
    \/ \E r \in Sequential, m \in AllMetas :
          OrganizationMiddleware_process_request(r, m, GraphQLPath)
    \/ \E r \in Sequential : RequireOrganizationMiddleware_process_request(r)
    \/ \E r \in Sequential : OrganizationMiddleware_process_response(r)
    \/ \E r \in Sequential : request_finished(r)
    \/ \E r \in Sequential, name \in OrganizationNames :
          CreateOrganizationMutation_mutate(r, name, GoodEmail, None)
    \/ \E r \in Sequential, id \in PkArgs, a \in ActiveFlags :
          UpdateOrganizationMutation_mutate(r, id, None, None, a)

SpecResolver == Init /\ [][NextResolver]_vars

(***************************************************************************)
(* SpecGate: the request gate over every path, with and without a tenant.  *)
(***************************************************************************)
NextGate ==
    \/ \E r \in Sequential, m \in HeaderMetas, p \in Paths :
          OrganizationMiddleware_process_request(r, m, p)
    \/ \E r \in Sequential : RequireOrganizationMiddleware_process_request(r)
    \/ \E r \in Sequential : OrganizationMiddleware_process_response(r)
    \/ \E r \in Sequential : request_finished(r)
    \/ \E r \in Sequential : other_view(r)
    \/ \E r \in Sequential, name \in OrganizationNames :
          CreateOrganizationMutation_mutate(r, name, GoodEmail, None)
    \/ \E r \in Sequential, id \in PkArgs, a \in ActiveFlags :
          UpdateOrganizationMutation_mutate(r, id, None, None, a)
    \/ \E r \in Sequential, id \in PkArgs, name \in ProjectNames :
          CreateProjectMutation_mutate(r, id, name, None, None)
    \/ \E r \in Sequential : resolve_projects(r)

SpecGate == Init /\ [][NextGate]_vars

(***************************************************************************)
(* SpecConcurrent: NumRequests workers serve requests at the same time,    *)
(* their steps interleaved; a request may rename and deactivate the        *)
(* organization another request has resolved.                              *)
(***************************************************************************)
ConcurrentMetas ==
    {Meta(None, None, None, None), Meta(Some("acme"), None, None, None),
     Meta(None, Some("x"), None, None)}

ConcurrentPaths == {"/graphql/", "/api/projects/"}

NextConcurrent ==
    \/ \E r \in Requests, m \in ConcurrentMetas, p \in ConcurrentPaths :
          OrganizationMiddleware_process_request(r, m, p)
    \/ \E r \in Requests : RequireOrganizationMiddleware_process_request(r)
    \/ \E r \in Requests : OrganizationMiddleware_process_response(r)
    \/ \E r \in Requests : request_finished(r)
    \/ \E r \in Requests : other_view(r)
    \/ \E r \in Requests :
          CreateOrganizationMutation_mutate(r, "Acme", GoodEmail, None)
    \/ \E r \in Requests :
          UpdateOrganizationMutation_mutate(r, "1", Some("Beta Co"), None,
                                            Some(FALSE))
    \/ \E r \in Requests : resolve_projects_by_organization(r, None)

SpecConcurrent == Init /\ [][NextConcurrent]_vars

(***************************************************************************)
(* SpecUtils: the functions of apps/organizations/utils.py applied to the  *)
(* tables in any state the mutations can leave them in.                    *)
(***************************************************************************)
OrganizationRows ==
    {[name |-> n, slug |-> slugify(n), contact_email |-> GoodEmail,
      is_active |-> a] :
        n \in OrganizationNames, a \in BOOLEAN}

Tables(rows, max) == UNION {[1..n -> rows] : n \in 0..max}

InitUtils ==
    /\ orgs \in {t \in Tables(OrganizationRows, MaxOrgs) :
                   \A i, j \in DOMAIN t : t[i].slug = t[j].slug => i = j}
    /\ projects \in
          {t \in Tables([organization : DOMAIN orgs, name : ProjectNames,
                         status : {"ACTIVE"}, due_date : {None}],
                        MaxProjects) :
              \A i, j \in DOMAIN t :
                  (/\ t[i].organization = t[j].organization
                   /\ t[i].name = t[j].name) => i = j}
    /\ tasks \in Tables([project : DOMAIN projects, status : {"TODO"},
                          priority : {"MEDIUM"}, assignee_email : {""},
                          due_date : {None}],
                         MaxTasks)
    /\ comments \in Tables([task : DOMAIN tasks, author_email : {GoodEmail}],
                            MaxComments)
    /\ requests = [r \in Requests |-> IdleRequest]
    /\ util = NoCall

NextUtils ==
    \/ \E model \in Models, organization \in OrganizationValues :
          filter_by_organization(model, organization)
    \/ \E organization \in OrganizationValues :
          validate_organization_access(organization)
    \/ \E organization \in OrganizationValues :
          check_organization_permission(organization)
    \/ call_returned

SpecUtils == InitUtils /\ [][NextUtils]_vars

(***************************************************************************)
(* SpecMutations: the seven mutations, one request after another, on       *)
(* organizations that are deactivated and reactivated; ids of rows that    *)
(* exist, of rows that do not, and text that is no number.                 *)
(***************************************************************************)
NoTenantMeta == Meta(None, None, None, None)

\* Ids of the first rows, an id no row has, and text that is no number.
TargetArgs == {"1", "2", "9", "x"}

\* Ids for the parent of a new task or comment.
ParentArgs == {"1", "9", "x"}

NextMutations ==
    \/ \E r \in Sequential :
          OrganizationMiddleware_process_request(r, NoTenantMeta, GraphQLPath)
    \/ \E r \in Sequential : RequireOrganizationMiddleware_process_request(r)
    \/ \E r \in Sequential : OrganizationMiddleware_process_response(r)
    \/ \E r \in Sequential : request_finished(r)
    \/ \E r \in Sequential, name \in OrganizationNames :
          CreateOrganizationMutation_mutate(r, name, GoodEmail, None)
    \/ \E r \in Sequential, id \in TargetArgs, a \in ActiveFlags :
          UpdateOrganizationMutation_mutate(r, id, None, None, a)
    \/ \E r \in Sequential, id \in TargetArgs :
          CreateProjectMutation_mutate(r, id, "Web", None, None)
    \/ \E r \in Sequential, id \in TargetArgs :
          UpdateProjectMutation_mutate(r, id, None, Some("COMPLETED"), None)
    \/ \E r \in Sequential, id \in ParentArgs :
          CreateTaskMutation_mutate(r, id, None, None, None, None)
    \/ \E r \in Sequential, id \in TargetArgs :
          UpdateTaskMutation_mutate(r, id, Some("DONE"), None, None, None)
    \/ \E r \in Sequential, id \in ParentArgs :
          AddTaskCommentMutation_mutate(r, id, GoodEmail)

SpecMutations == Init /\ [][NextMutations]_vars

(***************************************************************************)
(* Deletion.  The API has no delete operation; a row is deleted through    *)
(* the ORM (Model.delete), and on_delete=CASCADE on Project.organization,  *)
(* Task.project and TaskComment.task deletes the rows that point to it,    *)
(* and theirs.  A deleted row leaves its primary key unused.               *)
(***************************************************************************)
ProjectsOf(organizations) ==
    {p \in ProjectIds : projects[p].organization \in organizations}

TasksOf(ps) == {t \in TaskIds : tasks[t].project \in ps}

\* The cascade stops at the tasks.
CommentsOfNone(ts) == {}

CommentsOf(ts) == {c \in CommentIds : comments[c].task \in ts}

Remove(table, ids) ==
    [i \in DOMAIN table |-> IF i \in ids THEN Deleted ELSE table[i]]

Organization_delete(o) ==
    /\ o \in OrgIds
    /\ orgs' = Remove(orgs, {o})
    /\ projects' = Remove(projects, ProjectsOf({o}))
    /\ tasks' = Remove(tasks, TasksOf(ProjectsOf({o})))
    /\ comments' = Remove(comments, CommentsOf(TasksOf(ProjectsOf({o}))))
    /\ UNCHANGED <<requests, util>>

Project_delete(p) ==
    /\ p \in ProjectIds
    /\ projects' = Remove(projects, {p})
    /\ tasks' = Remove(tasks, TasksOf({p}))
    /\ comments' = Remove(comments, CommentsOf(TasksOf({p})))
    /\ UNCHANGED <<orgs, requests, util>>

Task_delete(t) ==
    /\ t \in TaskIds
    /\ tasks' = Remove(tasks, {t})
    /\ comments' = Remove(comments, CommentsOf({t}))
    /\ UNCHANGED <<orgs, projects, requests, util>>

(***************************************************************************)
(* SpecDelete: rows created through the API and deleted through the ORM.   *)
(***************************************************************************)
NextDelete ==
    \/ \E r \in Sequential :
          OrganizationMiddleware_process_request(r, NoTenantMeta, GraphQLPath)
    \/ \E r \in Sequential : RequireOrganizationMiddleware_process_request(r)
    \/ \E r \in Sequential : OrganizationMiddleware_process_response(r)
    \/ \E r \in Sequential : request_finished(r)
    \/ \E r \in Sequential, name \in OrganizationNames :
          CreateOrganizationMutation_mutate(r, name, GoodEmail, None)
    \/ \E r \in Sequential, id \in ProjectTargets :
          CreateProjectMutation_mutate(r, id, "Web", None, None)
    \/ \E r \in Sequential :
          CreateTaskMutation_mutate(r, "1", None, None, None, None)
    \/ \E r \in Sequential :
          AddTaskCommentMutation_mutate(r, "1", GoodEmail)
    \/ \E o \in 1..Len(orgs) : Organization_delete(o)
    \/ \E p \in 1..Len(projects) : Project_delete(p)
    \/ \E t \in 1..Len(tasks) : Task_delete(t)

SpecDelete == Init /\ [][NextDelete]_vars

(***************************************************************************)
(* SpecRates: two projects of one organization with up to MaxRateTasks     *)
(* tasks between them, those of project 1 TODO or DONE and those of        *)
(* project 2 DONE; tasks are created, set to DONE or back to TODO, and     *)
(* deleted, and the completion rate of a project is read.                  *)
(***************************************************************************)
MaxRateTasks == 4

InitRates ==
    /\ orgs = <<[name |-> "Acme", slug |-> "acme",
                 contact_email |-> GoodEmail, is_active |-> TRUE]>>
    /\ projects = <<[organization |-> 1, name |-> "Web", status |-> "ACTIVE",
                     due_date |-> None],
                    [organization |-> 1, name |-> "App", status |-> "ACTIVE",
                     due_date |-> None]>>
    /\ tasks \in Tables([project : {1}, status : {"TODO", "DONE"},
                          priority : {"MEDIUM"}, assignee_email : {""},
                          due_date : {None}]
                         \cup [project : {2}, status : {"DONE"},
                               priority : {"MEDIUM"}, assignee_email : {""},
                               due_date : {None}],
                         MaxRateTasks)
    /\ comments = <<>>
    /\ requests = [r \in Requests |-> IdleRequest]
    /\ util = NoCall

NextRates ==
    \/ \E r \in Sequential :
          OrganizationMiddleware_process_request(r, NoTenantMeta, GraphQLPath)
    \/ \E r \in Sequential : RequireOrganizationMiddleware_process_request(r)
    \/ \E r \in Sequential : OrganizationMiddleware_process_response(r)
    \/ \E r \in Sequential : request_finished(r)
    \/ \E r \in Sequential :
          CreateTaskMutation_mutate(r, "1", None, None, None, None)
    \/ \E r \in Sequential, status \in {"TODO", "DONE"} :
          UpdateTaskMutation_mutate(r, "1", Some(status), None, None, None)
    \/ \E t \in 1..Len(tasks) : Task_delete(t)
    \/ \E r \in Sequential, id \in ProjectTargets :
          resolve_completion_rate(r, id)

SpecRates == InitRates /\ [][NextRates]_vars

(***************************************************************************)
(* SpecEmails: the mutations that take an email address, called with an    *)
(* address EmailValidator accepts and with one it rejects.                 *)
(***************************************************************************)
Emails == {GoodEmail, "bad"}

NextEmails ==
    \/ \E r \in Sequential :
          OrganizationMiddleware_process_request(r, NoTenantMeta, GraphQLPath)
    \/ \E r \in Sequential : RequireOrganizationMiddleware_process_request(r)
    \/ \E r \in Sequential : OrganizationMiddleware_process_response(r)
    \/ \E r \in Sequential : request_finished(r)
    \/ \E r \in Sequential, e \in Emails :
          CreateOrganizationMutation_mutate(r, "Acme", e, None)
    \/ \E r \in Sequential, e \in Emails :
          UpdateOrganizationMutation_mutate(r, "1", None, Some(e), None)
    \/ \E r \in Sequential :
          CreateProjectMutation_mutate(r, "1", "Web", None, None)
    \/ \E r \in Sequential, e \in {None} \cup {Some(x) : x \in Emails} :
          CreateTaskMutation_mutate(r, "1", None, None, e, None)
    \/ \E r \in Sequential, e \in Emails :
          UpdateTaskMutation_mutate(r, "1", None, None, Some(e), None)
    \/ \E r \in Sequential, e \in Emails :
          AddTaskCommentMutation_mutate(r, "1", e)

SpecEmails == Init /\ [][NextEmails]_vars

(***************************************************************************)
(* SpecSlugs: createOrganization and updateOrganization from concurrent    *)
(* requests.  "!!" is a name slugify turns into the empty slug, which a    *)
(* later rename replaces by the slug of the new name; "acme" is an         *)
(* explicit slug equal to the one derived from "Acme".                     *)
(***************************************************************************)
SlugCreates == {<<"Acme", None>>, <<"!!", None>>, <<"Beta Co", Some("acme")>>}
Renames == {"Acme"}
RenameTargets == {"1"}

NextSlugs ==
    \/ \E r \in Requests :
          OrganizationMiddleware_process_request(r, NoTenantMeta, GraphQLPath)
    \/ \E r \in Requests : RequireOrganizationMiddleware_process_request(r)
    \/ \E r \in Requests : OrganizationMiddleware_process_response(r)
    \/ \E r \in Requests : request_finished(r)
    \/ \E r \in Requests, c \in SlugCreates :
          CreateOrganizationMutation_mutate(r, c[1], GoodEmail, c[2])
    \/ \E r \in Requests, id \in RenameTargets, name \in Renames :
          UpdateOrganizationMutation_get(r, id, Some(name), None, None)
    \/ \E r \in Requests : UpdateOrganizationMutation_save(r)

SpecSlugs == Init /\ [][NextSlugs]_vars

(***************************************************************************)
(* SpecProjects: projects created in and renamed within two organizations. *)
(***************************************************************************)
NextProjects ==
    \/ \E r \in Sequential :
          OrganizationMiddleware_process_request(r, NoTenantMeta, GraphQLPath)
    \/ \E r \in Sequential : RequireOrganizationMiddleware_process_request(r)
    \/ \E r \in Sequential : OrganizationMiddleware_process_response(r)
    \/ \E r \in Sequential : request_finished(r)
    \/ \E r \in Sequential, name \in OrganizationNames :
          CreateOrganizationMutation_mutate(r, name, GoodEmail, None)
    \/ \E r \in Sequential, id \in ProjectTargets, name \in ProjectNames :
          CreateProjectMutation_mutate(r, id, name, None, None)
    \/ \E r \in Sequential, id \in ProjectTargets, name \in ProjectNames :
          UpdateProjectMutation_mutate(r, id, Some(name), None, None)

SpecProjects == Init /\ [][NextProjects]_vars

(***************************************************************************)
(* SpecDerivation: organizations created without a slug (the argument      *)
(* omitted or null, both None in mutate, or the empty text) and with an    *)
(* explicit one.                                                           *)
(***************************************************************************)
DerivationNames == {"My Org", "Test Organization"}
DerivationSlugs == {None, Some(""), Some("custom-slug"), Some("My Slug")}

NextDerivation ==
    \/ \E r \in Sequential :
          OrganizationMiddleware_process_request(r, NoTenantMeta, GraphQLPath)
    \/ \E r \in Sequential : RequireOrganizationMiddleware_process_request(r)
    \/ \E r \in Sequential : OrganizationMiddleware_process_response(r)
    \/ \E r \in Sequential : request_finished(r)
    \/ \E r \in Sequential, name \in DerivationNames,
          slug \in DerivationSlugs :
          CreateOrganizationMutation_mutate(r, name, GoodEmail, slug)

SpecDerivation == Init /\ [][NextDerivation]_vars

(***************************************************************************)
(* SpecDeactivate: organization 1 with a project, a task and a comment is  *)
(* deactivated and reactivated, and requests name it by slug or by id.     *)
(***************************************************************************)
DeactivateMetas ==
    {NoTenantMeta,
     Meta(Some("acme"), None, None, None),
     Meta(None, Some("1"), None, None),
     Meta(None, None, None, Some("1"))}

NextDeactivate ==
    \/ \E r \in Sequential, m \in DeactivateMetas :
          OrganizationMiddleware_process_request(r, m, GraphQLPath)
    \/ \E r \in Sequential : RequireOrganizationMiddleware_process_request(r)
    \/ \E r \in Sequential : OrganizationMiddleware_process_response(r)
    \/ \E r \in Sequential : request_finished(r)
    \/ \E r \in Sequential :
          CreateOrganizationMutation_mutate(r, "Acme", GoodEmail, None)
    \/ \E r \in Sequential :
          CreateProjectMutation_mutate(r, "1", "Web", None, None)
    \/ \E r \in Sequential :
          CreateTaskMutation_mutate(r, "1", None, None, None, None)
    \/ \E r \in Sequential :
          AddTaskCommentMutation_mutate(r, "1", GoodEmail)
    \/ \E r \in Sequential, a \in ActiveFlags :
          UpdateOrganizationMutation_mutate(r, "1", None, None, a)

SpecDeactivate == Init /\ [][NextDeactivate]_vars

(***************************************************************************)
(* SpecDomains: status and priority given as a listed choice, as a text    *)
(* that is no choice, as the empty text, or omitted.                       *)
(***************************************************************************)
ProjectStatusArgs == {None, Some(""), Some("COMPLETED"), Some("BOGUS")}
TaskStatusArgs == {None, Some("DONE"), Some("BOGUS")}
PriorityArgs == {None, Some("HIGH"), Some("BOGUS")}

NextDomains ==
    \/ \E r \in Sequential :
          OrganizationMiddleware_process_request(r, NoTenantMeta, GraphQLPath)
    \/ \E r \in Sequential : RequireOrganizationMiddleware_process_request(r)
    \/ \E r \in Sequential : OrganizationMiddleware_process_response(r)
    \/ \E r \in Sequential : request_finished(r)
    \/ \E r \in Sequential :
          CreateOrganizationMutation_mutate(r, "Acme", GoodEmail, None)
    \/ \E r \in Sequential, status \in ProjectStatusArgs :
          CreateProjectMutation_mutate(r, "1", "Web", status, None)
    \/ \E r \in Sequential, status \in ProjectStatusArgs :
          UpdateProjectMutation_mutate(r, "1", None, status, None)
    \/ \E r \in Sequential, status \in TaskStatusArgs,
          priority \in PriorityArgs :
          CreateTaskMutation_mutate(r, "1", status, priority, None, None)
    \/ \E r \in Sequential, status \in TaskStatusArgs,
          priority \in PriorityArgs :
          UpdateTaskMutation_mutate(r, "1", status, priority, None, None)

SpecDomains == Init /\ [][NextDomains]_vars

(***************************************************************************)
(* SpecOverdue: a project and its tasks with or without a due date, open   *)
(* or completed, read before, on and after the due date.                   *)
(***************************************************************************)
Times == {1, 2, 3}
DueDates == {None, Some(2)}

NextOverdue ==
    \/ \E r \in Sequential :
          OrganizationMiddleware_process_request(r, NoTenantMeta, GraphQLPath)
    \/ \E r \in Sequential : RequireOrganizationMiddleware_process_request(r)
    \/ \E r \in Sequential : OrganizationMiddleware_process_response(r)
    \/ \E r \in Sequential : request_finished(r)
    \/ \E r \in Sequential :
          CreateOrganizationMutation_mutate(r, "Acme", GoodEmail, None)
    \/ \E r \in Sequential, due \in DueDates :
          CreateProjectMutation_mutate(r, "1", "Web", None, due)
    \/ \E r \in Sequential :
          UpdateProjectMutation_mutate(r, "1", None, Some("COMPLETED"), None)
    \/ \E r \in Sequential, due \in DueDates :
          CreateTaskMutation_mutate(r, "1", None, None, None, due)
    \/ \E r \in Sequential :
          UpdateTaskMutation_mutate(r, "1", Some("DONE"), None, None, None)
    \/ \E r \in Sequential, now \in Times :
          ProjectType_resolve_is_overdue(r, "1", now)
    \/ \E r \in Sequential, now \in Times :
          TaskType_resolve_is_overdue(r, "1", now)

SpecOverdue == Init /\ [][NextOverdue]_vars

\* An optional argument: omitted, or one of the values.
Optional(values) == {None} \cup {Some(v) : v \in values}

(***************************************************************************)
(* apps/organizations/utils.py, require_organization_context: the wrapper  *)
(* the decorator returns for a resolver func.  The resolver is an action   *)
(* of a request; the exception the wrapper raises leaves the resolver's    *)
(* field as an error of the answer.                                        *)
(***************************************************************************)
\* The wrapper's test without the test.
OrganizationContextMissingNever(req) == FALSE

\* organization = getattr(info.context, 'organization', None);
\* `if not organization`
OrganizationContextMissing(req) == ContextOrganization(req) = None

ContextRequired ==
    [NoResult EXCEPT !.raised = "PermissionDenied",
                     !.message = "Organization context required"]

\* func is the call func(self, info, *args, **kwargs) of the resolver for
\* request r.
require_organization_context(r, func) ==
    IF OrganizationContextMissing(requests[r])
    THEN /\ AtGraphQLView(r)
         /\ requests' = Returned(r, ContextRequired)
         /\ UNCHANGED <<store, util>>
    ELSE func

(***************************************************************************)
(* SpecGuard: createTask and updateTask wrapped by the decorator, called   *)
(* by requests with and without a tenant.                                  *)
(***************************************************************************)
GuardMetas == {NoTenantMeta, Meta(Some("acme"), None, None, None)}

NextGuard ==
    \/ \E r \in Sequential, meta \in GuardMetas :
          OrganizationMiddleware_process_request(r, meta, GraphQLPath)
    \/ \E r \in Sequential : RequireOrganizationMiddleware_process_request(r)
    \/ \E r \in Sequential : OrganizationMiddleware_process_response(r)
    \/ \E r \in Sequential : request_finished(r)
    \/ \E r \in Sequential :
          CreateOrganizationMutation_mutate(r, "Acme", GoodEmail, None)
    \/ \E r \in Sequential :
          CreateProjectMutation_mutate(r, "1", "Web", None, None)
    \/ \E r \in Sequential, project_id \in {"1", "9"},
          status \in Optional({"DONE"}), due \in DueDates :
          require_organization_context(
              r, CreateTaskMutation_mutate(r, project_id, status, None, None,
                                           due))
    \/ \E r \in Sequential, id \in {"1", "9"},
          status \in Optional({"DONE"}), priority \in Optional({"HIGH"}) :
          require_organization_context(
              r, UpdateTaskMutation_mutate(r, id, status, priority, None,
                                           None))

SpecGuard == Init /\ [][NextGuard]_vars

(***************************************************************************)
(* SpecStats: projectStats read on any day, for one organization or for    *)
(* all projects, over projects of every status with and without a due date *)
(* and tasks open and done.                                                *)
(***************************************************************************)
NextStats ==
    \/ \E r \in Sequential :
          OrganizationMiddleware_process_request(r, NoTenantMeta, GraphQLPath)
    \/ \E r \in Sequential : RequireOrganizationMiddleware_process_request(r)
    \/ \E r \in Sequential : OrganizationMiddleware_process_response(r)
    \/ \E r \in Sequential : request_finished(r)
    \/ \E r \in Sequential, name \in {"Acme", "Beta Co"} :
          CreateOrganizationMutation_mutate(r, name, GoodEmail, None)
    \/ \E r \in Sequential, organization_id \in {"1", "2"},
          status \in Optional({"COMPLETED", "ON_HOLD", "CANCELLED"}),
          due \in DueDates :
          CreateProjectMutation_mutate(r, organization_id, "Web", status, due)
    \/ \E r \in Sequential, project_id \in ProjectTargets,
          status \in Optional({"DONE"}) :
          CreateTaskMutation_mutate(r, project_id, status, None, None, None)
    \/ \E r \in Sequential, id \in {None, Some("1")}, today \in Times :
          resolve_project_stats(r, id, today)

SpecStats == Init /\ [][NextStats]_vars

(***************************************************************************)
(* SpecStability: organizations created with a slug ("Acme") and with the  *)
(* empty slug ("!!"), renamed, deactivated and reactivated by one request  *)
(* while another, which resolved its tenant from a slug or an id, is in    *)
(* progress.                                                               *)
(***************************************************************************)
StabilityMetas == {Meta(Some("acme"), None, None, None)}

\* name and is_active of an updateOrganization: a rename, a deactivation.
StabilityUpdates == {<<Some("Beta Co"), None>>, <<None, Some(FALSE)>>}

\* The request that resolved its tenant and the one that updates.
Pair == {1, 2}

NextStability ==
    \/ \E r \in Pair, meta \in StabilityMetas :
          OrganizationMiddleware_process_request(r, meta, GraphQLPath)
    \/ \E r \in Pair : RequireOrganizationMiddleware_process_request(r)
    \/ \E r \in Pair : OrganizationMiddleware_process_response(r)
    \/ \E r \in Pair : request_finished(r)
    \/ \E r \in Pair, name \in {"Acme", "!!"} :
          CreateOrganizationMutation_mutate(r, name, GoodEmail, None)
    \/ \E r \in Pair, id \in RenameTargets, u \in StabilityUpdates :
          UpdateOrganizationMutation_get(r, id, u[1], None, u[2])
    \/ \E r \in Pair : UpdateOrganizationMutation_save(r)

SpecStability == Init /\ [][NextStability]_vars

(***************************************************************************)
(* SpecUpdates: the three update mutations with each optional argument     *)
(* given or omitted, on an organization created with a name that has a     *)
(* slug ("Acme") or none ("!!"), its project and its task.                 *)
(***************************************************************************)
NextUpdates ==
    \/ \E r \in Sequential :
          OrganizationMiddleware_process_request(r, NoTenantMeta, GraphQLPath)
    \/ \E r \in Sequential : RequireOrganizationMiddleware_process_request(r)
    \/ \E r \in Sequential : OrganizationMiddleware_process_response(r)
    \/ \E r \in Sequential : request_finished(r)
    \/ \E r \in Sequential, name \in {"Acme", "!!"} :
          CreateOrganizationMutation_mutate(r, name, GoodEmail, None)
    \/ \E r \in Sequential, name \in Optional({"Beta Co"}),
          email \in Optional({"c@d.io"}), a \in Optional({FALSE}) :
          UpdateOrganizationMutation_mutate(r, "1", name, email, a)
    \/ \E r \in Sequential :
          CreateProjectMutation_mutate(r, "1", "Web", None, None)
    \/ \E r \in Sequential, name \in Optional({"App"}),
          status \in Optional({"ON_HOLD"}), due \in DueDates :
          UpdateProjectMutation_mutate(r, "1", name, status, due)
    \/ \E r \in Sequential :
          CreateTaskMutation_mutate(r, "1", None, None, None, None)
    \/ \E r \in Sequential, status \in Optional({"DONE"}),
          priority \in Optional({"HIGH"}), due \in DueDates :
          UpdateTaskMutation_mutate(r, "1", status, priority, None, due)

SpecUpdates == Init /\ [][NextUpdates]_vars

(***************************************************************************)
(* Properties.                                                             *)
(***************************************************************************)
\* A request whose view has returned.
Answered(req) == req.pc \in {"response", "done"} /\ req.handled

\* The tenant of a request whose resolver completed: None or Some(instance).
Tenant(req) == req.slot[1]

\* The organization at the root of an entity <<model, pk>>.
RootOrganization(e) ==
    CASE e[1] = "Project" -> projects[e[2]].organization
      [] e[1] = "Task" -> projects[tasks[e[2]].project].organization
      [] e[1] = "TaskComment" ->
           projects[tasks[comments[e[2]].task].project].organization

SingleEntityModel(op) ==
    CASE op = "project" -> "Project"
      [] op = "task" -> "Task"
      [] op = "taskComment" -> "TaskComment"

\* C1: the single-entity queries project, task and taskComment, asked for an
\* existing entity E rooted at organization A, return E when the request's
\* tenant is A or absent, and raise PermissionDenied, returning nothing,
\* when the tenant is another organization.
C1_SingleEntityAuthorization ==
    \A r \in Requests :
        LET req == requests[r]
            res == req.result
        IN  (/\ Answered(req)
             /\ res.op \in {"project", "task", "taskComment"}
             /\ WellFormedPk(res.arg)
             /\ IntOf(res.arg) \in AllRows(SingleEntityModel(res.op)))
            => LET e == <<SingleEntityModel(res.op), IntOf(res.arg)>>
               IN  IF Tenant(req) = None
                      \/ Tenant(req)[1].id = RootOrganization(e)
                   THEN res.raised = "" /\ res.data = {e}
                   ELSE res.raised = "PermissionDenied" /\ res.data = {}

\* A comment of one organization asked for by a request of another tenant
\* was denied.
C1_Witness ==
    \E r \in Requests :
        /\ Answered(requests[r])
        /\ requests[r].result.op = "taskComment"
        /\ requests[r].result.raised = "PermissionDenied"
        /\ Tenant(requests[r]) # None
        /\ IntOf(requests[r].result.arg) \in CommentIds
        /\ Tenant(requests[r])[1].id
             # RootOrganization(<<"TaskComment", IntOf(requests[r].result.arg)>>)

QueryOps ==
    {"project", "projects", "projectsByOrganization", "projectStats", "task",
     "tasks", "tasksByProject", "taskComment", "taskComments"}

\* C2: the result of a query (project, projects, projectsByOrganization,
\* projectStats, task, tasks, tasksByProject, taskComment, taskComments)
\* run by a request whose tenant is organization B holds, and counts, no
\* entity rooted at another organization.
C2_TenantIsolationOnReads ==
    \A r \in Requests :
        LET req == requests[r]
        IN  (Answered(req) /\ req.result.op \in QueryOps /\ Tenant(req) # None)
            => \A e \in req.result.data :
                   RootOrganization(e) = Tenant(req)[1].id

\* The Organization table as it was when the request arrived.
EntryOrgs(req) == req.entry[1]

\* A request whose resolver has run to its end (the attribute is assigned).
Resolved(req) == req.pc # "idle" /\ req.slot # <<>>

NamesBySlug(v, row) == v = Some(row.slug)
NamesById(v, i) == v # None /\ WellFormedPk(v[1]) /\ IntOf(v[1]) = i

\* C3: an organization that is inactive when the request arrives is never
\* the request's tenant, and a request that names it through one of the four
\* mechanisms (slug header, id header, slug query parameter, id query
\* parameter), by its slug or by its id, gets request.organization = None.
C3_InactiveResolvesToNone ==
    \A r \in Requests :
        LET req == requests[r]
            m == req.meta
            table == EntryOrgs(req)
        IN  req.pc # "idle" =>
              /\ (Resolved(req) /\ Tenant(req) # None)
                    => table[Tenant(req)[1].id].is_active
              /\ \A i \in Live(table) :
                    (/\ ~table[i].is_active
                     /\ \/ (NamesBySlug(m.slug_header, table[i])
                            /\ m.id_header = None /\ m.slug_param = None
                            /\ m.id_param = None)
                        \/ (NamesById(m.id_header, i)
                            /\ m.slug_header = None /\ m.slug_param = None
                            /\ m.id_param = None)
                        \/ (NamesBySlug(m.slug_param, table[i])
                            /\ m.slug_header = None /\ m.id_header = None
                            /\ m.id_param = None)
                        \/ (NamesById(m.id_param, i)
                            /\ m.slug_header = None /\ m.id_header = None
                            /\ m.slug_param = None))
                    => req.slot = <<None>>

\* A request named an inactive organization by its id in the id query
\* parameter and got no tenant.
C3_Witness ==
    \E r \in Requests :
        LET req == requests[r]
        IN  /\ Resolved(req)
            /\ req.slot = <<None>>
            /\ req.meta.slug_header = None /\ req.meta.id_header = None
            /\ req.meta.slug_param = None
            /\ \E i \in Live(EntryOrgs(req)) :
                  /\ ~EntryOrgs(req)[i].is_active
                  /\ NamesById(req.meta.id_param, i)

Present(v) == v # None /\ v[1] # ""

\* The first present identifier in the order slug header, id header, slug
\* query parameter, id query parameter.
FirstIdentifier(m) ==
    IF Present(m.slug_header)
    THEN <<[by |-> "slug", value |-> m.slug_header[1]]>>
    ELSE IF Present(m.id_header)
    THEN <<[by |-> "id", value |-> m.id_header[1]]>>
    ELSE IF Present(m.slug_param)
    THEN <<[by |-> "slug", value |-> m.slug_param[1]]>>
    ELSE IF Present(m.id_param)
    THEN <<[by |-> "id", value |-> m.id_param[1]]>>
    ELSE <<>>

\* The active organizations of a table that an identifier names.
Hits(table, l) ==
    {i \in Live(table) :
        /\ table[i].is_active
        /\ IF l.by = "slug" THEN table[i].slug = l.value
           ELSE WellFormedPk(l.value) /\ IntOf(l.value) = i}

\* C4: the resolver makes at most one lookup, none when no identifier is
\* present and otherwise one with the first present identifier in the order
\* slug header, id header, slug query parameter, id query parameter, by slug
\* or by id among the active organizations; the tenant is the organization
\* that lookup finds, and None when it finds none, whatever the later
\* identifiers name.
C4_ResolutionOrder ==
    \A r \in Requests :
        LET req == requests[r]
            table == EntryOrgs(req)
        IN  req.pc # "idle" =>
              /\ req.lookups = FirstIdentifier(req.meta)
              /\ Len(req.lookups) <= 1
              /\ Resolved(req) =>
                    IF req.lookups = <<>> \/ Hits(table, req.lookups[1]) = {}
                    THEN req.slot = <<None>>
                    ELSE /\ Tenant(req) # None
                         /\ Tenant(req)[1].id \in Hits(table, req.lookups[1])

\* The id header named no active organization, the slug query parameter
\* named an active one, and the request got no tenant.
C4_Witness ==
    \E r \in Requests :
        LET req == requests[r]
        IN  /\ Resolved(req)
            /\ req.slot = <<None>>
            /\ ~Present(req.meta.slug_header)
            /\ Present(req.meta.id_header)
            /\ Present(req.meta.slug_param)
            /\ Hits(EntryOrgs(req),
                    [by |-> "slug", value |-> req.meta.slug_param[1]]) # {}

\* C8: the tenant resolver never fails: whatever the identifiers are (naming
\* no organization, naming an inactive one, or no well-formed id), it
\* assigns request.organization, None on a miss, and the request goes on to
\* the gate.
C8_ResolverNeverFails ==
    \A r \in Requests :
        LET req == requests[r]
        IN  req.pc # "idle" =>
              /\ req.response.status # 500
              /\ req.slot # <<>>
              /\ (req.lookups # <<>>
                  /\ Hits(EntryOrgs(req), req.lookups[1]) = {})
                    => req.slot = <<None>>

\* A path the gate guards: under the API prefix and under no exempt prefix.
Guarded(path) ==
    /\ startswith(path, "/api/")
    /\ ~startswith(path, "/admin/")
    /\ ~startswith(path, "/graphql/")
    /\ ~startswith(path, "/api/organizations/")

\* A request that has passed the gate's step.
PastGate(req) == req.pc \in {"view", "response", "done"} /\ req.gate_saw # <<>>

\* C5: a request to a guarded path (under '/api/', under no exempt prefix)
\* for which no tenant was resolved is answered by the gate with status 400,
\* error 'Organization context required' and a message; its view is never
\* invoked and the tables are as they were when it arrived.
C5_GateRejection ==
    \A r \in Requests :
        LET req == requests[r]
        IN  (PastGate(req) /\ Guarded(req.path) /\ req.slot = <<None>>)
            => /\ req.pc # "view"
               /\ req.response.status = 400
               /\ req.response.error = "Organization context required"
               /\ req.response.message # ""
               /\ ~req.handled
               /\ store = req.entry

\* A request to a guarded path carried the slug of an inactive organization
\* and was answered 400.
C5_Witness ==
    \E r \in Requests :
        LET req == requests[r]
        IN  /\ req.pc = "done"
            /\ req.path = "/api/projects/"
            /\ req.response.status = 400
            /\ \E i \in Live(EntryOrgs(req)) :
                  /\ ~EntryOrgs(req)[i].is_active
                  /\ req.meta.slug_header = Some(EntryOrgs(req)[i].slug)

\* C6: the gate never rejects a request whose path starts with an exempt
\* prefix, or does not start with '/api/', or that has a tenant: the request
\* goes on to its view, with or without a tenant in the first two cases.
C6_GateBypass ==
    \A r \in Requests :
        LET req == requests[r]
        IN  (/\ PastGate(req)
             /\ \/ startswith(req.path, "/admin/")
                \/ startswith(req.path, "/graphql/")
                \/ startswith(req.path, "/api/organizations/")
                \/ ~startswith(req.path, "/api/")
                \/ (req.slot # <<>> /\ Tenant(req) # None))
            => /\ req.response.status # 400
               /\ req.pc = "view" \/ req.handled

\* A request without tenant to the organization endpoints reached its view.
C6_Witness ==
    \E r \in Requests :
        LET req == requests[r]
        IN  /\ req.pc = "done"
            /\ req.path = "/api/organizations/1/"
            /\ req.slot = <<None>>
            /\ req.handled
            /\ req.response.status = 200

\* The tenant the resolver finds on the table as it is when the request
\* arrives: the instance loaded from the row the first identifier names.
ResolvedAtStart(req) ==
    LET table == EntryOrgs(req)
        l == FirstIdentifier(req.meta)
    IN  IF l = <<>> \/ Hits(table, l[1]) = {} THEN None
        ELSE LET i == CHOOSE j \in Hits(table, l[1]) : TRUE
             IN  Some([id |-> i, name |-> table[i].name,
                       slug |-> table[i].slug,
                       is_active |-> table[i].is_active])

\* The attribute is assigned at most once, and once before the gate, view
\* and response steps; it holds the tenant resolved at the start, and that
\* is the value each of these steps reads.
TenantFixed ==
    \A r \in Requests :
        LET req == requests[r]
        IN  /\ req.writes <= 1
            /\ req.pc \in {"gate", "view", "response"} => req.writes = 1
            /\ req.slot # <<>> => req.slot = <<ResolvedAtStart(req)>>
            /\ req.gate_saw # <<>> => req.gate_saw = <<ResolvedAtStart(req)>>
            /\ req.view_saw # <<>> => req.view_saw = <<ResolvedAtStart(req)>>
            /\ req.response_saw # <<>>
                  => req.response_saw = <<ResolvedAtStart(req)>>

\* A step changes the attribute of a request only as that request's own
\* resolver step, or as the end of that request.
TenantOwnStep ==
    \A r \in Requests :
        requests'[r].slot # requests[r].slot
        => \/ requests[r].pc = "idle" /\ requests'[r].pc # "idle"
           \/ requests[r].pc = "done" /\ requests'[r].pc = "idle"

\* C9: with requests served concurrently and mutations interleaved with
\* them, each request's tenant is assigned once, before its gate and view
\* steps; the gate, the view and the response step read the value resolved
\* when the request started, whatever other requests do to the organization
\* meanwhile; and no step of another request changes it.
C9_TenantImmutable == []TenantFixed /\ [][TenantOwnStep]_vars

\* A request's view and response step read the tenant resolved at its start
\* after another request had renamed and deactivated that organization.
C9_Witness ==
    \E r \in Requests :
        LET req == requests[r]
        IN  /\ req.pc = "done"
            /\ req.slot # <<>>
            /\ Tenant(req) # None
            /\ req.view_saw = <<Tenant(req)>>
            /\ req.response_saw = <<Tenant(req)>>
            /\ Tenant(req)[1].is_active
            /\ ~orgs[Tenant(req)[1].id].is_active
            /\ orgs[Tenant(req)[1].id].name # Tenant(req)[1].name
            /\ \E q \in Requests \ {r} : requests[q].pc # "idle"

\* C7: filter_by_organization applied to all tasks with organization A
\* returns, without failing, exactly the tasks whose project's organization
\* is A.
C7_TaskFilterExact ==
    (/\ util.fn = "filter_by_organization"
     /\ util.model = "Task"
     /\ util.arg # None)
    => /\ util.raised = ""
       /\ util.out = {t \in TaskIds :
                        projects[tasks[t].project].organization
                          = util.arg[1].id}

\* What require_active answers for an organization: PermissionDenied for
\* None and for an inactive organization, True for an active one.
RequireActiveAnswer ==
    util.fn \in {"validate_organization_access",
                 "check_organization_permission"}
    => IF util.arg = None \/ ~util.arg[1].is_active
       THEN util.raised = "PermissionDenied" /\ ~util.returned
       ELSE util.raised = "" /\ util.returned

\* A call of one of the two functions leaves the tables and the requests as
\* they are.
RequireActiveReadOnly ==
    (/\ util' # util
     /\ util'.fn \in {"validate_organization_access",
                      "check_organization_permission"})
    => UNCHANGED <<store, requests>>

\* C10: validate_organization_access and check_organization_permission
\* raise PermissionDenied when the organization is None and when it is not
\* active, return True for every active organization, and change nothing.
C10_RequireActive == []RequireActiveAnswer /\ [][RequireActiveReadOnly]_vars

\* validate_organization_access was called with an inactive organization and
\* raised PermissionDenied.
C10_Witness ==
    /\ util.fn = "validate_organization_access"
    /\ util.arg # None
    /\ ~util.arg[1].is_active
    /\ util.raised = "PermissionDenied"
    /\ util.message = "Organization is not active"

\* The tables of a request's arrival.
EntryProjects(req) == req.entry[2]
EntryTasks(req) == req.entry[3]
EntryComments(req) == req.entry[4]

MutationOps ==
    {"createOrganization", "updateOrganization", "createProject",
     "updateProject", "createTask", "updateTask", "addTaskComment"}

\* The organization a mutation of a request depends on, on the tables of the
\* request's arrival: the organization a project is created in, or the root
\* of the project or task that is updated or given a child; none when the
\* id names no row.
DependsOn(req) ==
    LET op == req.result.op
        arg == req.result.arg
        pk == IntOf(arg)
        eo == EntryOrgs(req)
        ep == EntryProjects(req)
        et == EntryTasks(req)
    IN  IF ~WellFormedPk(arg) THEN {}
        ELSE IF op = "createProject" THEN {pk} \cap Live(eo)
        ELSE IF op \in {"createTask", "updateProject"}
        THEN {ep[p].organization : p \in {pk} \cap Live(ep)}
        ELSE IF op \in {"addTaskComment", "updateTask"}
        THEN {ep[et[t].project].organization : t \in {pk} \cap Live(et)}
        ELSE {}

\* C11: createProject, createTask, addTaskComment, updateProject and
\* updateTask check that the organization they depend on is active before
\* they write: when it is inactive the mutation fails and the tables are as
\* they were.
C11_ActiveCheckedBeforeMutation ==
    \A r \in Sequential :
        LET req == requests[r]
        IN  (/\ Answered(req)
             /\ \E o \in DependsOn(req) : ~EntryOrgs(req)[o].is_active)
            => /\ ~req.result.success
               /\ store = req.entry

\* The table in which a mutation looks up its target or parent, and the
\* error it lists when the id names no row.
LookupTable(req) ==
    LET op == req.result.op
    IN  IF op \in {"updateOrganization", "createProject"}
        THEN EntryOrgs(req)
        ELSE IF op \in {"updateProject", "createTask"}
        THEN EntryProjects(req)
        ELSE EntryTasks(req)

NotFoundError(op) ==
    IF op \in {"updateOrganization", "createProject"}
    THEN "Organization not found"
    ELSE IF op \in {"updateProject", "createTask"} THEN "Project not found"
    ELSE "Task not found"

\* The mutation of a request would break a uniqueness constraint of the
\* tables of its arrival: the slug of a new organization, or the name of a
\* new project within its organization.
Collides(req) ==
    LET res == req.result
    IN  \/ /\ res.op = "createOrganization"
           /\ \E i \in Live(EntryOrgs(req)) :
                 EntryOrgs(req)[i].slug
                   = (IF Present(res.given.slug) THEN res.given.slug[1]
                      ELSE slugify(res.arg))
        \/ /\ res.op = "createProject"
           /\ WellFormedPk(res.arg)
           /\ \E p \in Live(EntryProjects(req)) :
                 /\ EntryProjects(req)[p].organization = IntOf(res.arg)
                 /\ Some(EntryProjects(req)[p].name) = res.given.name

\* C12: a mutation never raises; when its target or parent id names no row
\* it returns success = false with exactly the error 'Organization not
\* found', 'Project not found' or 'Task not found'; when it would break a
\* uniqueness constraint it returns success = false; every failure comes
\* with a non-empty errors list and no entity, and leaves the tables as
\* they were.
C12_MutationFailuresAreValues ==
    \A r \in Sequential :
        LET req == requests[r]
            res == req.result
        IN  (Answered(req) /\ res.op \in MutationOps)
            => /\ res.raised = ""
               /\ res.success => res.errors = <<>> /\ res.data # {}
               /\ ~res.success
                    => /\ Len(res.errors) > 0
                       /\ \A i \in DOMAIN res.errors : res.errors[i] # ""
                       /\ res.data = {}
                       /\ store = req.entry
               /\ (/\ res.op # "createOrganization"
                   /\ WellFormedPk(res.arg)
                   /\ IntOf(res.arg) \notin Live(LookupTable(req)))
                    => /\ ~res.success
                       /\ res.errors = <<NotFoundError(res.op)>>
               /\ (res.op # "createOrganization" /\ ~WellFormedPk(res.arg))
                    => ~res.success
               /\ Collides(req) => ~res.success

\* A second project named as the first one of its organization was refused
\* with an error, and the tables are as they were.
C12_Witness ==
    \E r \in Sequential :
        LET req == requests[r]
        IN  /\ Answered(req)
            /\ req.result.op = "createProject"
            /\ Collides(req)
            /\ ~req.result.success
            /\ Len(req.result.errors) = 1
            /\ store = req.entry

\* The positions of a character in a text.
Positions(s, c) == {i \in 1..Len(s) : SubSeq(s, i, i) = c}

\* An address of the form local@domain with a dot inside the domain: what
\* EmailValidator requires of the texts used here.
WellFormedEmail(s) ==
    /\ Cardinality(Positions(s, "@")) = 1
    /\ LET at == CHOOSE i \in Positions(s, "@") : TRUE
       IN  /\ at > 1
           /\ \E d \in Positions(s, ".") : d > at + 1 /\ d < Len(s)

\* C13: a mutation given a malformed email returns success = false with a
\* non-empty errors list and stores nothing, and no stored organization,
\* task or comment holds a malformed email (a task may have none).
C13_MalformedEmailRejected ==
    /\ \A r \in Sequential :
          LET req == requests[r]
              res == req.result
          IN  (/\ Answered(req)
               /\ res.op \in MutationOps
               /\ res.given.email # None
               /\ ~WellFormedEmail(res.given.email[1]))
              => /\ ~res.success
                 /\ Len(res.errors) > 0
                 /\ store = req.entry
    /\ \A o \in OrgIds : WellFormedEmail(orgs[o].contact_email)
    /\ \A t \in TaskIds :
          tasks[t].assignee_email = ""
          \/ WellFormedEmail(tasks[t].assignee_email)
    /\ \A c \in CommentIds : WellFormedEmail(comments[c].author_email)

\* A step keeps the parent pointer of every row it keeps.
KeepsParents(table, after, field) ==
    \A i \in Live(table) :
        (i \in DOMAIN after /\ after[i] # Deleted)
            => after[i][field] = table[i][field]

\* The organization at the root of a task and of a comment.
RootOfTask(projectTable, taskTable, t) ==
    projectTable[taskTable[t].project].organization

\* C14: no step of the API changes the organization of a project, the
\* project of a task or the task of a comment, so the organization at the
\* root of every entity is the one it was created under.
C14_OwnershipChainImmutable ==
    [][/\ KeepsParents(projects, projects', "organization")
       /\ KeepsParents(tasks, tasks', "project")
       /\ KeepsParents(comments, comments', "task")
       /\ \A t \in Live(tasks) :
             RootOfTask(projects', tasks', t) = RootOfTask(projects, tasks, t)
       /\ Live(projects) \subseteq Live(projects')
       /\ Live(tasks) \subseteq Live(tasks')
       /\ Live(comments) \subseteq Live(comments')]_vars

\* An updateProject and an updateTask that changed their row: the row has
\* the parent it had when the request arrived.
C14_Witness ==
    \E r \in Sequential :
        LET req == requests[r]
            res == req.result
        IN  /\ Answered(req)
            /\ res.success
            /\ \/ /\ res.op = "updateProject"
                  /\ LET pk == IntOf(res.arg)
                     IN  /\ projects[pk] # EntryProjects(req)[pk]
                         /\ projects[pk].organization
                               = EntryProjects(req)[pk].organization
                         /\ projects[pk].organization = 2
                         /\ \E t \in TaskIds : tasks[t].project = pk
               \/ /\ res.op = "updateTask"
                  /\ LET pk == IntOf(res.arg)
                     IN  /\ tasks[pk] # EntryTasks(req)[pk]
                         /\ tasks[pk].project = EntryTasks(req)[pk].project
                         /\ \E c \in CommentIds : comments[c].task = pk

\* No two organizations of a table have the same slug.
SlugsDistinct(table) ==
    \A i, j \in Live(table) : i # j => table[i].slug # table[j].slug

\* The slug a createOrganization asks for: the explicit one, or the one
\* derived from the name.
WantedSlug(res) ==
    IF res.given.slug # None /\ res.given.slug[1] # ""
    THEN res.given.slug[1]
    ELSE slugify(res.given.name[1])

\* The step in which request r gets the answer of a createOrganization.
AnswersCreateOrganization(r) ==
    /\ requests[r].pc = "view"
    /\ requests'[r].pc = "response"
    /\ requests'[r].result.op = "createOrganization"

\* C15: under every interleaving of createOrganization and
\* updateOrganization no two organizations have the same slug, and a
\* createOrganization whose explicit or derived slug is the slug of an
\* existing organization fails with a non-empty errors list and creates
\* nothing.
C15_SlugsUnique ==
    /\ []SlugsDistinct(orgs)
    /\ [][\A r \in Requests :
             (/\ AnswersCreateOrganization(r)
              /\ \E i \in Live(orgs) :
                    orgs[i].slug = WantedSlug(requests'[r].result))
             => /\ ~requests'[r].result.success
                /\ Len(requests'[r].result.errors) > 0
                /\ store' = store]_vars

\* Two organizations exist, a createOrganization failed on a taken slug and
\* a rename by another request failed on one too.
C15_Witness ==
    /\ Cardinality(OrgIds) = 2
    /\ \E r, q \in Requests :
          /\ r # q
          /\ Answered(requests[r])
          /\ requests[r].result.op = "createOrganization"
          /\ ~requests[r].result.success
          /\ \E i \in OrgIds : orgs[i].slug = WantedSlug(requests[r].result)
          /\ Answered(requests[q])
          /\ requests[q].result.op = "updateOrganization"
          /\ requests[q].result.errors = <<"IntegrityError">>

\* The projects of a table that have the given organization and name.
Named(table, organization, name) ==
    {p \in Live(table) :
        table[p].organization = organization /\ table[p].name = name}

\* The createProject or rename of a request asks for a name that another
\* project of the same organization had when the request arrived.
NameCollides(req) ==
    LET res == req.result
        ep == EntryProjects(req)
        pk == IntOf(res.arg)
    IN  /\ WellFormedPk(res.arg)
        /\ res.given.name # None
        /\ \/ /\ res.op = "createProject"
              /\ Named(ep, pk, res.given.name[1]) # {}
           \/ /\ res.op = "updateProject"
              /\ pk \in Live(ep)
              /\ Named(ep, ep[pk].organization, res.given.name[1]) \ {pk}
                    # {}

\* C16: no two projects of one organization have the same name, and a
\* createProject or a rename that asks for the name of another project of
\* the same organization fails and leaves the tables as they were.
C16_ProjectNamesUniquePerOrganization ==
    /\ \A p, q \in ProjectIds :
          (p # q /\ projects[p].organization = projects[q].organization)
              => projects[p].name # projects[q].name
    /\ \A r \in Sequential :
          LET req == requests[r]
          IN  (Answered(req) /\ NameCollides(req))
              => /\ ~req.result.success
                 /\ Len(req.result.errors) > 0
                 /\ store = req.entry

\* Two projects of different organizations have the same name, and a rename
\* of one of two projects of one organization to the name of the other was
\* refused.
C16_Witness ==
    \/ /\ Cardinality(ProjectIds) = 2
       /\ projects[1].organization # projects[2].organization
       /\ projects[1].name = projects[2].name
       /\ \E r \in Sequential :
             /\ Answered(requests[r])
             /\ requests[r].result.op = "updateProject"
             /\ requests[r].result.success
             /\ projects[IntOf(requests[r].result.arg)]
                   # EntryProjects(requests[r])[IntOf(requests[r].result.arg)]
    \/ /\ Cardinality(ProjectIds) = 2
       /\ projects[1].organization = projects[2].organization
       /\ \E r \in Sequential :
             /\ Answered(requests[r])
             /\ requests[r].result.op = "updateProject"
             /\ NameCollides(requests[r])
             /\ ~requests[r].result.success

\* The rows of a table that a step deletes.
Removed(table, after) == {i \in Live(table) : after[i] = Deleted}

\* The rows of a table that a step neither deletes nor changes.
Untouched(table, after) ==
    \A i \in Live(table) : after[i] = Deleted \/ after[i] = table[i]

\* Every comment's task, every task's project and every project's
\* organization is a row of the store.
ReferentialIntegrity ==
    /\ \A p \in ProjectIds : projects[p].organization \in OrgIds
    /\ \A t \in TaskIds : tasks[t].project \in ProjectIds
    /\ \A c \in CommentIds : comments[c].task \in TaskIds

\* C17: a step that deletes an organization deletes its projects, their
\* tasks and their comments, one that deletes a project deletes its tasks
\* and their comments, one that deletes a task deletes its comments; it
\* deletes nothing else and changes no other row; and every parent pointer
\* in the store names an existing row.
C17_CascadeDelete ==
    /\ []ReferentialIntegrity
    /\ [][LET gone_o == Removed(orgs, orgs')
              gone_p == Removed(projects, projects')
              gone_t == Removed(tasks, tasks')
              gone_c == Removed(comments, comments')
          IN  /\ \A p \in ProjectIds :
                    p \in gone_p
                      <=> \/ projects[p].organization \in gone_o
                          \/ gone_o = {} /\ gone_p = {p}
              /\ \A t \in TaskIds :
                    t \in gone_t
                      <=> \/ tasks[t].project \in gone_p
                          \/ gone_p = {} /\ gone_t = {t}
              /\ \A c \in CommentIds :
                    c \in gone_c <=> comments[c].task \in gone_t
              /\ Cardinality(gone_o) <= 1
              /\ Untouched(orgs, orgs') /\ Untouched(projects, projects')
              /\ Untouched(tasks, tasks') /\ Untouched(comments, comments')
       ]_vars

\* Organization 1 had a project with a task with a comment when a request
\* arrived, and organization 2 a project; organization 1 and everything
\* under it is deleted, and the project of organization 2 is as it was.
C17_Witness ==
    \E r \in Sequential :
        LET req == requests[r]
            ep == EntryProjects(req)
            et == EntryTasks(req)
            ec == EntryComments(req)
        IN  /\ req.pc # "idle"
            /\ Live(EntryOrgs(req)) = {1, 2}
            /\ \E p \in Live(ep), q \in Live(ep), t \in Live(et),
                  c \in Live(ec) :
                  /\ ep[p].organization = 1 /\ ep[q].organization = 2
                  /\ et[t].project = p /\ ec[c].task = t
                  /\ orgs[1] = Deleted /\ projects[p] = Deleted
                  /\ tasks[t] = Deleted /\ comments[c] = Deleted
                  /\ projects[q] = ep[q] /\ orgs[2] = EntryOrgs(req)[2]

\* The slugified forms the specification gives for the names used.
ExpectedSlug(name) ==
    CASE name = "My Org" -> "my-org"
      [] name = "Test Organization" -> "test-organization"

\* C18: an organization created with no slug (absent, null or empty) has
\* the slugified form of its name as its slug, 'my-org' for 'My Org' and
\* 'test-organization' for 'Test Organization', and one created with a
\* non-empty slug has exactly that slug, whatever its name.
C18_SlugDerivation ==
    \A r \in Sequential :
        LET req == requests[r]
            res == req.result
        IN  (Answered(req) /\ res.op = "createOrganization")
            => /\ res.success
                    <=> \A i \in Live(EntryOrgs(req)) :
                           EntryOrgs(req)[i].slug # WantedSlug(res)
               /\ res.success =>
                    \E e \in res.data :
                        /\ orgs[e[2]].name = res.given.name[1]
                        /\ orgs[e[2]].slug =
                             (IF res.given.slug = None \/ res.given.slug = Some("")
                              THEN ExpectedSlug(res.given.name[1])
                              ELSE res.given.slug[1])

\* 'My Org' was created without a slug and has the slug 'my-org', and the
\* request after it created 'Test Organization' with the explicit slug
\* 'My Slug'.
C18_Witness ==
    \E r \in Sequential :
        LET req == requests[r]
            res == req.result
        IN  /\ Answered(req)
            /\ res.op = "createOrganization"
            /\ res.success
            /\ res.given.slug = Some("My Slug")
            /\ Len(orgs) = 2
            /\ orgs[1].name = "My Org" /\ orgs[1].slug = "my-org"
            /\ orgs[2].name = "Test Organization" /\ orgs[2].slug = "My Slug"

\* The metadata of a request names organization i of a table by its slug
\* or by its id, in a header or in a query parameter.
NamesOrganization(m, table, i) ==
    \/ NamesBySlug(m.slug_header, table[i])
    \/ NamesById(m.id_header, i)
    \/ NamesBySlug(m.slug_param, table[i])
    \/ NamesById(m.id_param, i)

\* C19: an updateOrganization that sets only is_active changes the active
\* flag of its organization and nothing else in the store (its slug, its
\* projects, tasks and comments stay); a request that arrives while the
\* organization is inactive and names it gets no tenant; and one that
\* arrives after it is active again gets it as its tenant, with the same id
\* and slug.
C19_DeactivationIsNotDeletion ==
    \A r \in Sequential :
        LET req == requests[r]
            res == req.result
            eo == EntryOrgs(req)
        IN  /\ (/\ Answered(req)
                /\ res.op = "updateOrganization"
                /\ res.success
                /\ res.given.is_active # None
                /\ res.given.name = None /\ res.given.email = None)
               => /\ orgs = [eo EXCEPT ![IntOf(res.arg)].is_active =
                                          res.given.is_active[1]]
                  /\ projects = EntryProjects(req)
                  /\ tasks = EntryTasks(req)
                  /\ comments = EntryComments(req)
            /\ req.pc # "idle" =>
                 \A i \in Live(eo) :
                    NamesOrganization(req.meta, eo, i)
                    => /\ ~eo[i].is_active => req.slot = <<None>>
                       /\ eo[i].is_active
                            => /\ req.slot # <<>> /\ Tenant(req) # None
                               /\ Tenant(req)[1].id = i
                               /\ Tenant(req)[1].slug = eo[i].slug
                               /\ Tenant(req)[1].slug = slugify(eo[i].name)

\* A request named organization 1 by its slug while it was inactive and got
\* no tenant; it then set is_active to true, and the organization has its
\* slug, its project, its task and its comment.
C19_Witness ==
    \E r \in Sequential :
        LET req == requests[r]
            res == req.result
        IN  /\ Answered(req)
            /\ req.meta.slug_header = Some("acme")
            /\ req.slot = <<None>>
            /\ 1 \in Live(EntryOrgs(req))
            /\ ~EntryOrgs(req)[1].is_active
            /\ res.op = "updateOrganization" /\ res.success
            /\ res.given.is_active = Some(TRUE)
            /\ orgs[1].is_active /\ orgs[1].slug = "acme"
            /\ \E p \in ProjectIds, t \in TaskIds, c \in CommentIds :
                  /\ projects[p].organization = 1
                  /\ tasks[t].project = p
                  /\ comments[c].task = t

\* The values the specification allows.
ProjectStatuses == {"ACTIVE", "COMPLETED", "ON_HOLD", "CANCELLED"}
TaskStatuses == {"TODO", "IN_PROGRESS", "DONE"}
Priorities == {"LOW", "MEDIUM", "HIGH", "URGENT"}

\* C20: whatever texts the create and update mutations are given, every
\* project's status is ACTIVE, COMPLETED, ON_HOLD or CANCELLED, every task's
\* status is TODO, IN_PROGRESS or DONE and every task's priority is LOW,
\* MEDIUM, HIGH or URGENT; and a create that omits the value stores ACTIVE,
\* TODO and MEDIUM.
C20_StatusAndPriorityDomains ==
    /\ \A p \in ProjectIds : projects[p].status \in ProjectStatuses
    /\ \A t \in TaskIds :
          /\ tasks[t].status \in TaskStatuses
          /\ tasks[t].priority \in Priorities
    /\ \A r \in Sequential :
          LET req == requests[r]
              res == req.result
          IN  (Answered(req) /\ res.success) =>
                /\ (res.op = "createProject" /\ res.given.status = None)
                      => \A e \in res.data : projects[e[2]].status = "ACTIVE"
                /\ (res.op = "createTask" /\ res.given.status = None)
                      => \A e \in res.data : tasks[e[2]].status = "TODO"
                /\ (res.op = "createTask" /\ res.given.priority = None)
                      => \A e \in res.data : tasks[e[2]].priority = "MEDIUM"

\* The value of a field of the response, as a set: empty when the response
\* does not carry the field.
HeaderValues(req, field) ==
    {h[2] : h \in {x \in req.response.headers : x[1] = field}}

\* C21: the response of a request carries X-Organization-ID and
\* X-Organization-Slug exactly when the request resolved a tenant, and
\* then they are the id and the slug of that organization and nothing
\* else; a request the gate rejected for its missing tenant carries
\* neither.
C21_ResponseTenantMetadata ==
    \A r \in Requests :
        LET req == requests[r]
            resolved == req.slot # <<>> /\ req.slot # <<None>>
        IN  req.pc = "done" =>
              /\ resolved =>
                   /\ HeaderValues(req, "X-Organization-ID")
                         = {StrOf(Tenant(req)[1].id)}
                   /\ HeaderValues(req, "X-Organization-Slug")
                         = {EntryOrgs(req)[Tenant(req)[1].id].slug}
                   /\ Cardinality(req.response.headers) = 2
              /\ ~resolved => req.response.headers = {}
              /\ req.response.status = 400 => req.response.headers = {}

\* A request that named organization 2 by its slug was answered with the
\* two fields '2' and 'beta-co'.
C21_Witness ==
    \E r \in Requests :
        LET req == requests[r]
        IN  /\ req.pc = "done"
            /\ req.meta.slug_header = Some("beta-co")
            /\ req.response.status = 200
            /\ req.response.headers =
                  {<<"X-Organization-ID", "2">>,
                   <<"X-Organization-Slug", "beta-co">>}

\* C22: filter_by_organization returns the empty collection, for every
\* tenant value, on the one model that has none of the attributes
\* 'organization', 'project' and 'task' (Organization), and on Project,
\* which has the field 'organization', exactly the projects whose
\* organization is the tenant.
C22_FilterFailClosed ==
    util.fn = "filter_by_organization" =>
        /\ util.model = "Organization"
              => util.raised = "" /\ util.out = {}
        /\ util.model = "Project"
              => /\ util.raised = ""
                 /\ util.out =
                      {p \in ProjectIds :
                          /\ util.arg # None
                          /\ projects[p].organization = util.arg[1].id}

\* The filter was applied to the organizations with an organization that
\* exists and returned nothing, in a store where that organization has a
\* project and another organization has one too.
C22_Witness ==
    /\ util.fn = "filter_by_organization"
    /\ util.model = "Organization"
    /\ util.arg # None
    /\ util.out = {}
    /\ \E p, q \in ProjectIds :
          /\ projects[p].organization = util.arg[1].id
          /\ projects[q].organization # util.arg[1].id

\* The step in which the resolver runs for request r.
Resolves(r) == requests[r].pc = "idle" /\ requests'[r].pc # "idle"

OwnTasks(p) == {t \in Live(tasks) : tasks[t].project = p}
OwnDone(p) == {t \in OwnTasks(p) : tasks[t].status = "DONE"}

\* h hundredths is 100 * n / d rounded to two decimals: no multiple of 0.01
\* is nearer.
IsRounded(h, n, d) ==
    /\ 2 * (h * d - 10000 * n) <= d
    /\ 2 * (10000 * n - h * d) <= d

\* C24: the completion rate of a project is 0 when it has no tasks and
\* otherwise 100 * (its DONE tasks) / (its tasks) rounded to two decimals,
\* 25.0 for four tasks with one DONE; it counts the project's own tasks
\* only and lies between 0 and 100.
C24_CompletionRate ==
    [][\A r \in Sequential :
          (/\ requests[r].pc = "view"
           /\ requests'[r].result.op = "completionRate")
          => /\ requests'[r].result.stats # None
             /\ LET p == IntOf(requests'[r].result.arg)
                    h == requests'[r].result.stats[1].completion_rate
                    total == Cardinality(OwnTasks(p))
                    done == Cardinality(OwnDone(p))
                IN  /\ total = 0 => h = 0
                    /\ total > 0 => IsRounded(h, done, total)
                    /\ (total = 4 /\ done = 1) => h = 2500
                    /\ h >= 0 /\ h <= 10000]_vars

\* Project 1 has four tasks, one of them DONE, and its rate was read as
\* 25.0.
C24_Witness ==
    \E r \in Sequential :
        LET req == requests[r]
        IN  /\ Answered(req)
            /\ req.result.op = "completionRate"
            /\ req.result.arg = "1"
            /\ store = req.entry
            /\ Cardinality(OwnTasks(1)) = 4
            /\ Cardinality(OwnDone(1)) = 1
            /\ req.result.stats = Some([completion_rate |-> 2500])

\* C25: is_overdue of a project is true exactly when it has a due date, the
\* due date is before the current date and its status is not COMPLETED, and
\* is_overdue of a task exactly when it has a due date, the due date is
\* before the current time and its status is not DONE.
C25_IsOverdue ==
    \A r \in Sequential :
        LET req == requests[r]
            res == req.result
            pk == IntOf(res.arg)
        IN  (Answered(req) /\ res.stats # None) =>
              /\ res.op = "projectIsOverdue" =>
                   (res.stats[1].is_overdue
                      <=> \E due \in Times :
                             /\ projects[pk].due_date = Some(due)
                             /\ due < res.stats[1].now
                             /\ projects[pk].status # "COMPLETED")
              /\ res.op = "taskIsOverdue" =>
                   (res.stats[1].is_overdue
                      <=> \E due \in Times :
                             /\ tasks[pk].due_date = Some(due)
                             /\ due < res.stats[1].now
                             /\ tasks[pk].status # "DONE")

\* A COMPLETED project was read after its due date and is not overdue.
C25_Witness ==
    \E r \in Sequential :
        LET req == requests[r]
            res == req.result
        IN  /\ Answered(req)
            /\ res.op = "projectIsOverdue"
            /\ res.stats = Some([is_overdue |-> FALSE, now |-> 3])
            /\ projects[1].due_date = Some(2)
            /\ projects[1].status = "COMPLETED"
            /\ \E t \in TaskIds : tasks[t].due_date = Some(2)

\* The organization at the root of what a mutation writes, on the tables of
\* the request's arrival: the organization updateOrganization names, and
\* for the other mutations the organization they depend on.
WrittenRoot(req) ==
    IF req.result.op = "updateOrganization"
    THEN IF WellFormedPk(req.result.arg)
         THEN {IntOf(req.result.arg)} \cap Live(EntryOrgs(req))
         ELSE {}
    ELSE DependsOn(req)

\* C26: a mutation of a request whose tenant is organization B neither
\* creates an entity under nor changes an entity of another organization
\* A: the call is rejected with a tenant-mismatch error and the tables are
\* as they were.
C26_MutationsRespectTenant ==
    \A r \in Sequential :
        LET req == requests[r]
        IN  (/\ Answered(req)
             /\ req.result.op \in MutationOps \ {"createOrganization"}
             /\ Tenant(req) # None
             /\ \E a \in WrittenRoot(req) : a # Tenant(req)[1].id)
            => /\ ~req.result.success \/ req.result.raised # ""
               /\ store = req.entry

\* The value of a field after an update that was given v for it: the value
\* given, or the old one when v is None.
Supplied(v, old) == IF v # None THEN v[1] ELSE old

\* The row an update of a request must leave behind, from the row of the
\* request's arrival and the arguments given.
FramedOrganization(old, given) ==
    [old EXCEPT !.name = Supplied(given.name, @),
                !.contact_email = Supplied(given.email, @),
                !.is_active = Supplied(given.is_active, @)]

FramedProject(old, given) ==
    [old EXCEPT !.name = Supplied(given.name, @),
                !.status = Supplied(given.status, @),
                !.due_date = IF given.due_date # None THEN given.due_date
                             ELSE @]

FramedTask(old, given) ==
    [old EXCEPT !.status = Supplied(given.status, @),
                !.priority = Supplied(given.priority, @),
                !.assignee_email = Supplied(given.email, @),
                !.due_date = IF given.due_date # None THEN given.due_date
                             ELSE @]

\* C27: a successful updateOrganization, updateProject or updateTask sets
\* the fields it was given a value for (false for is_active included) and
\* changes nothing else: not the other fields of the row, not its parent,
\* not another row.
C27_UpdateFrame ==
    \A r \in Sequential :
        LET req == requests[r]
            res == req.result
            pk == IntOf(res.arg)
        IN  (Answered(req) /\ res.success) =>
              /\ res.op = "updateOrganization" =>
                   /\ orgs = [EntryOrgs(req) EXCEPT
                                ![pk] = FramedOrganization(@, res.given)]
                   /\ <<projects, tasks, comments>>
                        = <<EntryProjects(req), EntryTasks(req),
                            EntryComments(req)>>
              /\ res.op = "updateProject" =>
                   /\ projects = [EntryProjects(req) EXCEPT
                                    ![pk] = FramedProject(@, res.given)]
                   /\ <<orgs, tasks, comments>>
                        = <<EntryOrgs(req), EntryTasks(req),
                            EntryComments(req)>>
              /\ res.op = "updateTask" =>
                   /\ tasks = [EntryTasks(req) EXCEPT
                                 ![pk] = FramedTask(@, res.given)]
                   /\ <<orgs, projects, comments>>
                        = <<EntryOrgs(req), EntryProjects(req),
                            EntryComments(req)>>

\* The row createTask stores for the arguments given.
NewTask(project_id, given) ==
    [project |-> IntOf(project_id),
     status |-> Supplied(given.status, "TODO"),
     priority |-> Supplied(given.priority, "MEDIUM"),
     assignee_email |-> Supplied(given.email, ""),
     due_date |-> given.due_date]

\* What one call of the handler named by a result does to the tables of
\* the request's arrival, and the only answer it may give.
HandledOnce(req) ==
    LET res == req.result
        pk == IntOf(res.arg)
        et == EntryTasks(req)
    IN  /\ <<orgs, projects, comments>>
             = <<EntryOrgs(req), EntryProjects(req), EntryComments(req)>>
        /\ res.raised = ""
        /\ IF res.op = "createTask"
           THEN IF pk \in Live(EntryProjects(req))
                THEN /\ tasks = Append(et, NewTask(res.arg, res.given))
                     /\ res.success
                     /\ res.data = {<<"Task", Len(et) + 1>>}
                ELSE /\ tasks = et
                     /\ ~res.success
                     /\ res.errors = <<"Project not found">>
           ELSE IF pk \in Live(et)
                THEN /\ tasks = [et EXCEPT ![pk] = FramedTask(@, res.given)]
                     /\ res.success
                     /\ res.data = {<<"Task", pk>>}
                ELSE /\ tasks = et
                     /\ ~res.success
                     /\ res.errors = <<"Task not found">>

\* C28: a resolver wrapped by require_organization_context, called by a
\* request without an organization, raises PermissionDenied('Organization
\* context required') and the resolver does not run: the tables are those
\* of the request's arrival.  Called by a request with an organization,
\* the resolver runs once with the arguments given and its result is the
\* answer.
C28_RequireOrganizationContext ==
    \A r \in Sequential :
        LET req == requests[r]
            res == req.result
        IN  Answered(req) =>
              /\ res.op \in {"createTask", "updateTask"} =>
                   Tenant(req) # None /\ HandledOnce(req)
              /\ (Tenant(req) = None /\ res.op \notin MutationOps) =>
                   /\ res = ContextRequired
                   /\ store = req.entry
              /\ res.raised = "PermissionDenied" => Tenant(req) = None

C28_Witness ==
    /\ \E r \in Sequential :
          /\ Answered(requests[r])
          /\ Tenant(requests[r]) # None
          /\ requests[r].result.op = "updateTask"
          /\ requests[r].result.success
          /\ requests[r].result.given.priority = Some("HIGH")
    /\ Len(tasks) = MaxTasks

\* The projects a projectStats answer covers.
StatsScope(req) == {e[2] : e \in {d \in req.result.data : d[1] = "Project"}}

\* C29: the numbers projectStats returns are those of the per-project
\* derived values over the projects in scope: overdue_projects is the
\* number of projects whose is_overdue is true, total_projects the number
\* of projects, total_tasks and completed_tasks the sums of task_count and
\* completed_tasks.
C29_ProjectStatsAgree ==
    \A r \in Sequential :
        LET req == requests[r]
            res == req.result
            scope == StatsScope(req)
        IN  (/\ Answered(req)
             /\ res.op = "projectStats"
             /\ res.stats # None
             /\ store = req.entry) =>
              LET stats == res.stats[1]
              IN  /\ stats.total_projects = Cardinality(scope)
                  /\ stats.total_tasks
                       = SumOver(scope, [p \in scope |-> task_count(p)])
                  /\ stats.completed_tasks
                       = SumOver(scope, [p \in scope |-> completed_tasks(p)])
                  /\ stats.overdue_projects
                       = Cardinality({p \in scope :
                                         Project_is_overdue(p, stats.today)})

\* No request holds an instance of organization i that it loaded while the
\* slug was empty and has yet to save.
NoEmptySlugCopy(i) ==
    \A r \in Requests :
        (requests[r].pc = "saving" /\ IntOf(requests[r].result.arg) = i)
        => requests[r].instance[1].slug # ""

\* The same of the next state.
NoEmptySlugCopyNext(i) ==
    \A r \in Requests :
        (requests'[r].pc = "saving" /\ IntOf(requests'[r].result.arg) = i)
        => requests'[r].instance[1].slug # ""

\* C30: an organization created with a non-empty slug keeps that slug
\* through every updateOrganization, renames included, so the slug that
\* resolves to it goes on resolving to it, and to no other organization,
\* while it is active.  Step by step: a new organization with a slug has
\* no copy loaded with the empty slug; and an organization with a slug and
\* no such copy has, after any step, the same slug and no such copy, and
\* if it is active it is the one active organization with that slug.
C30_SlugStability ==
    [][/\ \A i \in DOMAIN orgs' \ DOMAIN orgs :
             orgs'[i].slug # "" => NoEmptySlugCopyNext(i)
       /\ \A i \in OrgIds :
             (orgs[i].slug # "" /\ NoEmptySlugCopy(i)) =>
                 /\ i \in DOMAIN orgs'
                 /\ orgs'[i].slug = orgs[i].slug
                 /\ NoEmptySlugCopyNext(i)
                 /\ orgs'[i].is_active =>
                      {j \in DOMAIN orgs' :
                          /\ orgs'[j].slug = orgs[i].slug
                          /\ orgs'[j].is_active} = {i}]_vars

\* A request resolved organization 1 from the slug 'acme' and is still in
\* progress; the organization has since been renamed by another request
\* and is active.
C30_Witness ==
    \E r, q \in Requests :
        /\ r # q
        /\ requests[r].pc \notin {"idle", "done"}
        /\ requests[r].meta.slug_header = Some("acme")
        /\ requests[r].slot # <<>> /\ requests[r].slot # <<None>>
        /\ requests[r].slot[1][1].id = 1
        /\ requests[r].slot[1][1].name = "Acme"
        /\ Answered(requests[q])
        /\ requests[q].result.op = "updateOrganization"
        /\ requests[q].result.success
        /\ orgs[1].name = "Beta Co"
        /\ orgs[1].slug = "acme"
        /\ orgs[1].is_active

====
